---- MODULE Spec2Model ----
(***************************************************************************)
(* Steel6502: a W65C02S emulator.  The model follows the three components  *)
(* of the repository: the paged memory segments (memory/memory.rs), the    *)
(* machine / address decoder (bus/bus.rs) and the CPU execution engine     *)
(* (cpu/w65c02s.rs).                                                       *)
(*                                                                         *)
(* A call into the emulator is evaluated on a working record               *)
(*   st = [cpu, bus, fault, val]                                           *)
(* cpu   : the six registers of struct W65C02S                             *)
(* bus   : the Machine (ram, rom, page_map)                                *)
(* fault : how the call was cut short (a panic or an Err), NoFault if not  *)
(* val   : the value the last primitive returned                           *)
(* A panic or an Err ends the call where it happens, so every primitive is *)
(* the identity on a record that already carries a fault.  The state that  *)
(* was changed before the fault is kept as the code leaves it.             *)
(***************************************************************************)
EXTENDS Integers, Sequences, FiniteSets, TLC

VARIABLES
    cpu,        \* struct W65C02S
    machine,    \* struct Machine: [ram, rom, page_map]
    result,     \* what the last call (reset, step, read, write) returned
    steps,      \* number of calls of step so far
    resets,     \* number of calls of reset so far
    before,     \* the cpu as it was when the last call started
    called      \* the last call and its arguments

vars == <<cpu, machine, result, steps, resets, before, called>>

(***************************************************************************)
(* Machine integers: u8 and u16 arithmetic and bit operations.             *)
(***************************************************************************)
U8  == 0..255
U16 == 0..65535

RECURSIVE BitAnd(_, _)
BitAnd(a, b) ==
    IF a = 0 \/ b = 0 THEN 0
    ELSE (a % 2) * (b % 2) + 2 * BitAnd(a \div 2, b \div 2)

RECURSIVE BitOr(_, _)
BitOr(a, b) ==
    IF a = 0 THEN b
    ELSE IF b = 0 THEN a
    ELSE (IF a % 2 = 1 \/ b % 2 = 1 THEN 1 ELSE 0) + 2 * BitOr(a \div 2, b \div 2)

RECURSIVE BitXor(_, _)
BitXor(a, b) ==
    IF a = 0 THEN b
    ELSE IF b = 0 THEN a
    ELSE (IF a % 2 = b % 2 THEN 0 ELSE 1) + 2 * BitXor(a \div 2, b \div 2)

\* !v on a u8
Not8(v) == 255 - v

\* v << 1 and v >> 1 on a u8
Shl8(v) == (v * 2) % 256
Shr8(v) == v \div 2

\* bit i of v
Bit(v, i) == (v \div (2 ^ i)) % 2

\* u8::wrapping_add / wrapping_sub, u16::wrapping_add / wrapping_sub
wrapping_add8(v, d)  == (v + d) % 256
wrapping_sub8(v, d)  == (v + 256 - d) % 256
wrapping_add16(v, d) == (v + d) % 65536
wrapping_sub16(v, d) == (v + 65536 - d) % 65536

\* the byte taken as it is, with no sign
AsI8_unsigned(b) == b

\* `b as i8`: the byte read as a signed two's complement number
AsI8(b) == IF b >= 128 THEN b - 256 ELSE b

\* u16::wrapping_add_signed(offset as i16)
wrapping_add_signed(v, offset) == (v + offset + 65536) % 65536

\* `flag as u8`
BoolU8(flag) == IF flag THEN 1 ELSE 0

(***************************************************************************)
(* Faults: the ways a call ends early.                                     *)
(*   Err   : CpuError::InvalidOpcode(u8), CpuError::InvalidOperand(op)     *)
(*   Panic : panic!, unimplemented!, unreachable!, index out of bounds     *)
(***************************************************************************)
NoFault == [kind |-> "None", what |-> "", code |-> 0]

Err(what, code) == [kind |-> "Err", what |-> what, code |-> code]

Panic(what, code) == [kind |-> "Panic", what |-> what, code |-> code]

Running(st) == st.fault.kind = "None"

Fail(st, fault) == [st EXCEPT !.fault = fault]

Return(st, v) == [st EXCEPT !.val = v]

(***************************************************************************)
(* memory/memory.rs: segments of 256-byte pages.  A segment is             *)
(*   [num_pages, bytes]                                                    *)
(* where bytes maps <<page, offset>> to the byte stored there; a place     *)
(* that was never stored to holds the 0 that MemoryPage::new put there.    *)
(***************************************************************************)
MemoryPage_SIZE == 256

\* RAMSegment::new / ROMSegment::new
Segment_new(num_pages) ==
    [num_pages |-> num_pages, bytes |-> <<>>]

\* Indexed::len: size_bytes = MemoryPage::SIZE * num_pages
Segment_len(seg) == MemoryPage_SIZE * seg.num_pages

\* MemoryPage::read_unchecked of pages[page]
read_unchecked(seg, page, offset) ==
    IF <<page, offset>> \in DOMAIN seg.bytes THEN seg.bytes[<<page, offset>>] ELSE 0

\* MemoryPage::write_unchecked of pages[page]
write_unchecked(seg, page, offset, val) ==
    [seg EXCEPT !.bytes = (<<page, offset>> :> val) @@ @]

\* RAMSegment::read_page_offset / ROMSegment::read_page_offset:
\* self.pages[page] panics when page is not an index of the Vec.
read_page_offset(st, seg, page, offset) ==
    IF page >= seg.num_pages
    THEN Fail(st, Panic("IndexOutOfBounds", page))
    ELSE Return(st, read_unchecked(seg, page, offset))

\* the store with the page index dropped: every write lands in page 0
write_page_offset_page0(st, page, offset, val) ==
    [st EXCEPT !.bus.ram = write_unchecked(@, 0, offset, val)]

\* RAMSegment::write_page_offset
write_page_offset(st, page, offset, val) ==
    IF page >= st.bus.ram.num_pages
    THEN Fail(st, Panic("IndexOutOfBounds", page))
    ELSE [st EXCEPT !.bus.ram = write_unchecked(@, page, offset, val)]

\* RAMSegment::load (reached through Machine::load_ram).  The loop takes
\* the bytes in order with i counting from 0 and leaves only when
\* i > size_bytes, so it goes on to index i = size_bytes, whose page is
\* num_pages: self.pages[page] then panics, with the bytes before it stored.
\* Every index below the stop is written, zeros included.
RAMSegment_load(st, bytes) ==
    LET seg    == st.bus.ram
        reach  == IF bytes.len > Segment_len(seg) + 1
                  THEN Segment_len(seg) + 1 ELSE bytes.len
        stop   == IF reach > MemoryPage_SIZE * seg.num_pages
                  THEN MemoryPage_SIZE * seg.num_pages ELSE reach
        stored == [po \in {<<i \div 256, i % 256>> :
                              i \in {j \in DOMAIN bytes.bytes : j < stop}}
                      |-> bytes.bytes[po[1] * 256 + po[2]]]
        kept   == [po \in {q \in DOMAIN seg.bytes : q[1] * 256 + q[2] >= stop}
                      |-> seg.bytes[po]]
        after  == [st EXCEPT !.bus.ram.bytes = stored @@ kept]
    IN  IF ~Running(st) THEN st
        ELSE IF reach > stop
        THEN Fail(after, Panic("IndexOutOfBounds", stop \div 256))
        ELSE after

(***************************************************************************)
(* bus/bus.rs: the machine and its page map.                               *)
(***************************************************************************)
Unmapped == [kind |-> "Unmapped", page_relative |-> 0]

RAM(page_relative) == [kind |-> "RAM", page_relative |-> page_relative]

ROM(page_relative) == [kind |-> "ROM", page_relative |-> page_relative]

\* (address >> 8, address & 0xff)
split_address(address) == <<address \div 256, address % 256>>

\* the page map with the ROM entries not made relative to the segment
page_map_absolute_rom ==
    [page \in 0..255 |-> IF page <= 127 THEN RAM(page) ELSE ROM(page)]

\* The page map of Machine::new_32k_ram_32k_rom: pages 0x00..=0x7f are RAM,
\* pages 0x80..=0xff are ROM, every other entry stays Page::Unmapped.
default_page_map ==
    [page \in 0..255 |->
        IF page <= 127 THEN RAM(page)
        ELSE IF page >= 128 /\ page <= 255 THEN ROM(page - 128)
        ELSE Unmapped]

\* the load that clamps at the capacity the way the RAM variant is meant to
ROMSegment_load_clamp(seg, image) ==
    [ok |-> TRUE,
     seg |-> [seg EXCEPT !.bytes =
                 [po \in {<<i \div 256, i % 256>> :
                             i \in {j \in DOMAIN image.bytes : j < Segment_len(seg)}}
                     |-> image.bytes[po[1] * 256 + po[2]]] @@ @]]

\* ROMSegment::load: Err(OutOfRange) when the image is longer than the
\* segment, else byte i of the image goes to page i >> 8, offset i & 0xff.
\* An image is [len, bytes]: bytes maps an index below len to its byte, and
\* an index it does not name holds 0.
ROMSegment_load(seg, image) ==
    IF image.len > Segment_len(seg)
    THEN [ok |-> FALSE, seg |-> seg]
    ELSE [ok |-> TRUE,
          seg |-> [seg EXCEPT !.bytes =
                      [po \in {<<i \div 256, i % 256>> : i \in DOMAIN image.bytes}
                          |-> image.bytes[po[1] * 256 + po[2]]] @@ @]]

\* the constructor with the image loaded into the RAM segment
new_32k_ram_32k_rom_in_ram(rom_image) ==
    [ram      |-> ROMSegment_load(Segment_new(128), rom_image).seg,
     rom      |-> Segment_new(128),
     page_map |-> default_page_map]

\* Machine::new_32k_ram_32k_rom (the image fits: a longer one panics and no
\* machine exists)
new_32k_ram_32k_rom(rom_image) ==
    [ram      |-> Segment_new(128),
     rom      |-> ROMSegment_load(Segment_new(128), rom_image).seg,
     page_map |-> default_page_map]

\* <Machine as Bus>::read
read(st, address) ==
    IF ~Running(st) THEN st
    ELSE LET page   == split_address(address)[1]
             offset == split_address(address)[2]
             entry  == st.bus.page_map[page]
         IN  CASE entry.kind = "ROM" ->
                    read_page_offset(st, st.bus.rom, entry.page_relative, offset)
               [] entry.kind = "RAM" ->
                    read_page_offset(st, st.bus.ram, entry.page_relative, offset)
               [] OTHER ->
                    Fail(st, Panic("ReadUnmapped", address))

\* the write with no refusal: a ROM page is stored to like a RAM page
write_through(st, address, val) ==
    IF ~Running(st) THEN st
    ELSE LET page   == split_address(address)[1]
             offset == split_address(address)[2]
             entry  == st.bus.page_map[page]
         IN  CASE entry.kind = "RAM" ->
                    [st EXCEPT !.bus.ram =
                        write_unchecked(@, entry.page_relative, offset, val)]
               [] entry.kind = "ROM" ->
                    [st EXCEPT !.bus.rom =
                        write_unchecked(@, entry.page_relative, offset, val)]
               [] OTHER -> st

\* <Machine as Bus>::write
write(st, address, val) ==
    IF ~Running(st) THEN st
    ELSE LET page   == split_address(address)[1]
             offset == split_address(address)[2]
             entry  == st.bus.page_map[page]
         IN  CASE entry.kind = "RAM" ->
                    write_page_offset(st, entry.page_relative, offset, val)
               [] entry.kind = "ROM" ->
                    Fail(st, Panic("WriteROM", address))
               [] OTHER ->
                    Fail(st, Panic("WriteUnmapped", address))

(***************************************************************************)
(* cpu/w65c02s.rs: registers, status flags, fetch and stack primitives.    *)
(***************************************************************************)
\* #[derive(Default)] struct W65C02S: every register is zero
W65C02S_default ==
    [program_counter           |-> 0,
     a_register                |-> 0,
     y_register                |-> 0,
     x_register                |-> 0,
     stack_pointer             |-> 0,
     processor_status_register |-> 0]

IRQB_LOW == 65534
RESB_LOW == 65532
NMIB_LOW == 65530
STACK_POINTER_BASE == 256

\* Status::mask
Status_C == 1
Status_Z == 2
Status_I == 4
Status_D == 8
Status_B == 16
Status_V == 64
Status_N == 128

\* W65C02S::fetch_u8
fetch_u8(st) ==
    LET r == read(st, st.cpu.program_counter)
    IN  IF ~Running(r) THEN r
        ELSE [r EXCEPT !.cpu.program_counter = wrapping_add16(@, 1)]

\* both bytes read, the program counter advanced once
fetch_u16_one_advance(st) ==
    LET low  == fetch_u8(st)
        high == read(low, low.cpu.program_counter)
    IN  IF ~Running(high) THEN high
        ELSE Return(high, BitOr(high.val * 256, low.val))

\* W65C02S::fetch_u16
fetch_u16(st) ==
    LET low  == fetch_u8(st)
        high == fetch_u8(low)
    IN  IF ~Running(high) THEN high
        ELSE Return(high, BitOr(high.val * 256, low.val))

\* the push that writes at SP without the 0x0100 base
stack_push_u8_no_base(st, val) ==
    LET w == write(st, st.cpu.stack_pointer, val)
    IN  IF ~Running(w) THEN w
        ELSE [w EXCEPT !.cpu.stack_pointer = wrapping_sub8(@, 1)]

\* W65C02S::stack_push_u8
stack_push_u8(st, val) ==
    LET w == write(st, BitOr(STACK_POINTER_BASE, st.cpu.stack_pointer), val)
    IN  IF ~Running(w) THEN w
        ELSE [w EXCEPT !.cpu.stack_pointer = wrapping_sub8(@, 1)]

\* the pull that reads the cell SP names and moves SP afterwards
stack_pull_u8_read_first(st) ==
    IF ~Running(st) THEN st
    ELSE LET rd == read(st, BitOr(STACK_POINTER_BASE, st.cpu.stack_pointer))
         IN  [rd EXCEPT !.cpu.stack_pointer = wrapping_add8(@, 1)]

\* W65C02S::stack_pull_u8
stack_pull_u8(st) ==
    IF ~Running(st) THEN st
    ELSE LET s == [st EXCEPT !.cpu.stack_pointer = wrapping_add8(@, 1)]
         IN  read(s, BitOr(STACK_POINTER_BASE, s.cpu.stack_pointer))

\* W65C02S::status_set
\* the flag bits are or-ed in and never masked out
status_set_no_clear(st, mask, val) ==
    IF ~Running(st) THEN st
    ELSE [st EXCEPT !.cpu.processor_status_register =
             BitOr(@, mask * BoolU8(val))]

status_set(st, mask, val) ==
    IF ~Running(st) THEN st
    ELSE [st EXCEPT !.cpu.processor_status_register =
             BitOr(BitAnd(@, Not8(mask)), mask * BoolU8(val))]

\* W65C02S::status_check
status_check(st, mask) ==
    BitAnd(st.cpu.processor_status_register, mask) > 0

\* W65C02S::status_update_zn
status_update_zn(st, val) ==
    status_set(status_set(st, Status_Z, val = 0), Status_N, (val \div 128) > 0)

\* the default status without the B bit: 0x24
set_p_default_no_b(st) == [st EXCEPT !.cpu.processor_status_register = 36]

\* W65C02S::set_p_default
set_p_default(st) == [st EXCEPT !.cpu.processor_status_register = 52]

\* read_u16
read_u16(st, address) ==
    LET low  == read(st, address)
        high == read(low, wrapping_add16(address, 1))
    IN  IF ~Running(high) THEN high
        ELSE Return(high, BitOr(high.val * 256, low.val))

\* crosses_pages
crosses_pages(a, b) == (a \div 256) # (b \div 256)

(***************************************************************************)
(* enum Operand and struct ResolvedOperand.                                *)
(***************************************************************************)
Implied == [kind |-> "Implied", a |-> 0, b |-> 0]

Accumulator == [kind |-> "Accumulator", a |-> 0, b |-> 0]

Value(v) == [kind |-> "Value", a |-> v, b |-> 0]

Address(addr) == [kind |-> "Address", a |-> addr, b |-> 0]

Relative(offset) == [kind |-> "Relative", a |-> offset, b |-> 0]

ZpAddrRelative(addr, offset) == [kind |-> "ZpAddrRelative", a |-> addr, b |-> offset]

ResolvedOperand(operand, page_crossed) ==
    [operand |-> operand, page_crossed |-> page_crossed]

\* Operand::read
Operand_read(st, operand) ==
    IF ~Running(st) THEN st
    ELSE CASE operand.kind = "Value"          -> Return(st, operand.a)
           [] operand.kind = "Address"        -> read(st, operand.a)
           [] operand.kind = "Accumulator"    -> Return(st, st.cpu.a_register)
           [] operand.kind = "ZpAddrRelative" -> read(st, operand.a)
           [] OTHER -> Fail(st, Err("InvalidOperand", 0))

\* Operand::write
Operand_write(st, operand, val) ==
    IF ~Running(st) THEN st
    ELSE CASE operand.kind = "Address"     -> write(st, operand.a, val)
           [] operand.kind = "Accumulator" -> [st EXCEPT !.cpu.a_register = val]
           [] OTHER -> Fail(st, Err("InvalidOperand", 0))

\* AddressingMode::num_operand_bytes
num_operand_bytes(mode) ==
    CASE mode = "Absolute"                 -> 2
      [] mode = "AbsoluteIndexedIndirect"  -> 2
      [] mode = "AbsoluteIndexedX"         -> 2
      [] mode = "AbsoluteIndexedY"         -> 2
      [] mode = "AbsoluteIndirect"         -> 2
      [] mode = "Accumulator"              -> 0
      [] mode = "Immediate"                -> 1
      [] mode = "Implied"                  -> 0
      [] mode = "ProgramCounterRelative"   -> 1
      [] mode = "Stack"                    -> 0
      [] mode = "ZeroPage"                 -> 1
      [] mode = "ZeroPageIndexedIndirect"  -> 1
      [] mode = "ZeroPageIndexedX"         -> 1
      [] mode = "ZeroPageIndexedY"         -> 1
      [] mode = "ZeroPageIndirect"         -> 1
      [] mode = "ZeroPageIndirectIndexedY" -> 1
      [] mode = "ZeroPageRelative"         -> 2

\* the high byte read at zp_addr + 1 with no wrap, so from 0x0100 after 0xFF
read_zp_pointer_no_wrap(st, zp_addr) ==
    LET low  == read(st, zp_addr)
        high == read(low, zp_addr + 1)
    IN  IF ~Running(high) THEN high
        ELSE Return(high, BitOr(high.val * 256, low.val))

\* The two bus reads of a zero-page pointer: low at zp_addr, high at
\* zp_addr.wrapping_add(1), both in page zero.
read_zp_pointer(st, zp_addr) ==
    LET low  == read(st, zp_addr)
        high == read(low, wrapping_add8(zp_addr, 1))
    IN  IF ~Running(high) THEN high
        ELSE Return(high, BitOr(high.val * 256, low.val))

\* resolve_operand: the record returned carries the ResolvedOperand in val
resolve_operand(st, mode) ==
    IF ~Running(st) THEN st
    ELSE CASE mode = "Absolute" ->
                LET f == fetch_u16(st)
                IN  IF ~Running(f) THEN f
                    ELSE Return(f, ResolvedOperand(Address(f.val), FALSE))
           [] mode = "AbsoluteIndexedIndirect" ->
                LET f      == fetch_u16(st)
                    addr   == wrapping_add16(f.val, f.cpu.x_register)
                    target == read_u16(f, addr)
                IN  IF ~Running(target) THEN target
                    ELSE Return(target, ResolvedOperand(Address(target.val), FALSE))
           [] mode = "AbsoluteIndexedX" ->
                LET f    == fetch_u16(st)
                    base == f.val
                    addr == wrapping_add16(base, f.cpu.x_register)
                IN  IF ~Running(f) THEN f
                    ELSE Return(f, ResolvedOperand(Address(addr), crosses_pages(base, addr)))
           [] mode = "AbsoluteIndexedY" ->
                LET f    == fetch_u16(st)
                    base == f.val
                    addr == wrapping_add16(base, f.cpu.y_register)
                IN  IF ~Running(f) THEN f
                    ELSE Return(f, ResolvedOperand(Address(addr), crosses_pages(base, addr)))
           [] mode = "AbsoluteIndirect" ->
                LET f      == fetch_u16(st)
                    target == read_u16(f, f.val)
                IN  IF ~Running(target) THEN target
                    ELSE Return(target, ResolvedOperand(Address(target.val), FALSE))
           [] mode = "Accumulator" ->
                Return(st, ResolvedOperand(Accumulator, FALSE))
           [] mode = "Immediate" ->
                LET f == fetch_u8(st)
                IN  IF ~Running(f) THEN f
                    ELSE Return(f, ResolvedOperand(Value(f.val), FALSE))
           [] mode = "Implied" ->
                Return(st, ResolvedOperand(Implied, FALSE))
           [] mode = "ProgramCounterRelative" ->
                LET f == fetch_u8(st)
                IN  IF ~Running(f) THEN f
                    ELSE Return(f, ResolvedOperand(Relative(AsI8(f.val)), FALSE))
           [] mode = "Stack" ->
                Return(st, ResolvedOperand(Implied, FALSE))
           [] mode = "ZeroPage" ->
                LET f == fetch_u8(st)
                IN  IF ~Running(f) THEN f
                    ELSE Return(f, ResolvedOperand(Address(f.val), FALSE))
           [] mode = "ZeroPageIndexedIndirect" ->
                LET f       == fetch_u8(st)
                    zp_addr == wrapping_add8(f.val, f.cpu.x_register)
                    target  == read_zp_pointer(f, zp_addr)
                IN  IF ~Running(target) THEN target
                    ELSE Return(target, ResolvedOperand(Address(target.val), FALSE))
           [] mode = "ZeroPageIndexedX" ->
                LET f       == fetch_u8(st)
                    zp_addr == wrapping_add8(f.val, f.cpu.x_register)
                IN  IF ~Running(f) THEN f
                    ELSE Return(f, ResolvedOperand(Address(zp_addr), FALSE))
           [] mode = "ZeroPageIndexedY" ->
                LET f       == fetch_u8(st)
                    zp_addr == wrapping_add8(f.val, f.cpu.y_register)
                IN  IF ~Running(f) THEN f
                    ELSE Return(f, ResolvedOperand(Address(zp_addr), FALSE))
           [] mode = "ZeroPageIndirect" ->
                LET f      == fetch_u8(st)
                    target == read_zp_pointer(f, f.val)
                IN  IF ~Running(target) THEN target
                    ELSE Return(target, ResolvedOperand(Address(target.val), FALSE))
           [] mode = "ZeroPageIndirectIndexedY" ->
                LET f      == fetch_u8(st)
                    b      == read_zp_pointer(f, f.val)
                    base   == b.val
                    target == wrapping_add16(base, b.cpu.y_register)
                IN  IF ~Running(b) THEN b
                    ELSE Return(b, ResolvedOperand(Address(target),
                                                   crosses_pages(base, target)))
           [] mode = "ZeroPageRelative" ->
                LET zp  == fetch_u8(st)
                    rel == fetch_u8(zp)
                IN  IF ~Running(rel) THEN rel
                    ELSE Return(rel, ResolvedOperand(
                                        ZpAddrRelative(zp.val, AsI8(rel.val)), FALSE))

(***************************************************************************)
(* cpu/w65c02s.rs: the instruction handlers.  Each takes the working       *)
(* record and the ResolvedOperand r, as the OpFn of the source does.       *)
(***************************************************************************)
\* the shape shared by the eight conditional branches and BRA
branch_if(st, r, taken) ==
    IF r.operand.kind = "Relative"
    THEN IF taken
         THEN [st EXCEPT !.cpu.program_counter = wrapping_add_signed(@, r.operand.a)]
         ELSE st
    ELSE Fail(st, Panic("Unreachable", 0))

\* ADC with the overflow taken from the carry out of bit 7 alone
op_adc_v_is_carry(st, r) ==
    LET rd       == Operand_read(st, r.operand)
        val      == rd.val
        a        == rd.cpu.a_register
        sum      == a + val + BoolU8(status_check(rd, Status_C))
        res      == sum % 256
        flags    == status_update_zn(
                        status_set(status_set(rd, Status_C, sum > 255),
                                   Status_V, sum > 255), res)
    IN  IF ~Running(rd) THEN rd
        ELSE [flags EXCEPT !.cpu.a_register = res]

\* the sum adjusted by 6 when D is set and the low digits pass 9
op_adc_decimal(st, r) ==
    LET rd       == Operand_read(st, r.operand)
        val      == rd.val
        a        == rd.cpu.a_register
        c        == BoolU8(status_check(rd, Status_C))
        adjust   == IF status_check(rd, Status_D) /\ (a % 16) + (val % 16) + c > 9
                    THEN 6 ELSE 0
        sum      == a + val + c + adjust
        res      == sum % 256
        overflow == BitAnd(BitAnd(Not8(BitXor(a, val)), BitXor(a, res)), 128) # 0
        flags    == status_update_zn(
                        status_set(status_set(rd, Status_C, sum > 255),
                                   Status_V, overflow), res)
    IN  IF ~Running(rd) THEN rd
        ELSE [flags EXCEPT !.cpu.a_register = res]

op_adc(st, r) ==
    LET rd       == Operand_read(st, r.operand)
        val      == rd.val
        a        == rd.cpu.a_register
        sum      == a + val + BoolU8(status_check(rd, Status_C))
        res      == sum % 256
        overflow == BitAnd(BitAnd(Not8(BitXor(a, val)), BitXor(a, res)), 128) # 0
        flags    == status_update_zn(
                        status_set(status_set(rd, Status_C, sum > 255),
                                   Status_V, overflow), res)
    IN  IF ~Running(rd) THEN rd
        ELSE [flags EXCEPT !.cpu.a_register = res]

op_and(st, r) ==
    LET rd  == Operand_read(st, r.operand)
        res == BitAnd(rd.cpu.a_register, rd.val)
    IN  IF ~Running(rd) THEN rd
        ELSE [status_update_zn(rd, res) EXCEPT !.cpu.a_register = res]

op_asl(st, r) ==
    LET rd    == Operand_read(st, r.operand)
        val   == rd.val
        res   == Shl8(val)
        flags == status_update_zn(status_set(rd, Status_C, BitAnd(val, 128) > 0), res)
    IN  IF ~Running(rd) THEN rd
        ELSE Operand_write(flags, r.operand, res)

op_bbrn(st, r, n) ==
    LET mask == 2 ^ n
    IN  IF r.operand.kind = "ZpAddrRelative"
        THEN LET rd == read(st, r.operand.a)
             IN  IF ~Running(rd) THEN rd
                 ELSE IF BitAnd(rd.val, mask) = 0
                      THEN [rd EXCEPT !.cpu.program_counter =
                                          wrapping_add_signed(@, r.operand.b)]
                      ELSE rd
        ELSE Fail(st, Panic("Unreachable", 0))

\* the test of bit 0 whatever n is
op_bbsn_bit0(st, r, n) ==
    IF r.operand.kind = "ZpAddrRelative"
    THEN LET rd == read(st, r.operand.a)
         IN  IF ~Running(rd) THEN rd
             ELSE IF BitAnd(rd.val, 1) > 0
                  THEN [rd EXCEPT !.cpu.program_counter =
                                      wrapping_add_signed(@, r.operand.b)]
                  ELSE rd
    ELSE Fail(st, Panic("Unreachable", 0))

op_bbsn(st, r, n) ==
    LET mask == 2 ^ n
    IN  IF r.operand.kind = "ZpAddrRelative"
        THEN LET rd == read(st, r.operand.a)
             IN  IF ~Running(rd) THEN rd
                 ELSE IF BitAnd(rd.val, mask) > 0
                      THEN [rd EXCEPT !.cpu.program_counter =
                                          wrapping_add_signed(@, r.operand.b)]
                      ELSE rd
        ELSE Fail(st, Panic("Unreachable", 0))

op_bcc(st, r) == branch_if(st, r, ~status_check(st, Status_C))

op_bcs(st, r) == branch_if(st, r, status_check(st, Status_C))

op_beq(st, r) == branch_if(st, r, status_check(st, Status_Z))

\* BIT that copies bits 7 and 6 of the operand in every mode
op_bit_nv_always(st, r) ==
    LET rd  == Operand_read(st, r.operand)
        val == rd.val
        z   == status_set(rd, Status_Z, BitAnd(rd.cpu.a_register, val) = 0)
    IN  IF ~Running(rd) THEN rd
        ELSE status_set(status_set(z, Status_N, (val \div 128) > 0),
                        Status_V, BitAnd(val, 64) > 0)

op_bit(st, r) ==
    LET rd  == Operand_read(st, r.operand)
        val == rd.val
        z   == status_set(rd, Status_Z, BitAnd(rd.cpu.a_register, val) = 0)
    IN  IF ~Running(rd) THEN rd
        ELSE IF r.operand.kind = "Value" THEN z
        ELSE status_set(status_set(z, Status_N, (val \div 128) > 0),
                        Status_V, BitAnd(val, 64) > 0)

op_bmi(st, r) == branch_if(st, r, status_check(st, Status_N))

op_bne(st, r) == branch_if(st, r, ~status_check(st, Status_Z))

op_bpl(st, r) == branch_if(st, r, ~status_check(st, Status_N))

op_bra(st, r) == branch_if(st, r, TRUE)

\* the status pushed as it is, B not forced
brk_status_byte_plain(p) == p

\* the byte BRK pushes for the status register
brk_status_byte(p) == BitOr(p, 16)

op_brk(st, r) ==
    LET return_addr == wrapping_add16(st.cpu.program_counter, 1)
        p1   == stack_push_u8(st, return_addr \div 256)
        p2   == stack_push_u8(p1, BitAnd(return_addr, 255))
        p3   == stack_push_u8(p2, brk_status_byte(p2.cpu.processor_status_register))
        i    == status_set(p3, Status_I, TRUE)
        low  == read(i, IRQB_LOW)
        high == read(low, IRQB_LOW + 1)
    IN  IF ~Running(high) THEN high
        ELSE [high EXCEPT !.cpu.program_counter = BitOr(high.val * 256, low.val)]

op_bvc(st, r) == branch_if(st, r, ~status_check(st, Status_V))

op_bvs(st, r) == branch_if(st, r, status_check(st, Status_V))

op_clc(st, r) == status_set(st, Status_C, FALSE)

op_cld(st, r) == status_set(st, Status_D, FALSE)

op_cli(st, r) == status_set(st, Status_I, FALSE)

op_clv(st, r) == status_set(st, Status_V, FALSE)

\* the body shared by op_cmp, op_cpx and op_cpy, for the register reg
\* carry only when the register is strictly greater
compare_carry_strict(st, r, reg) ==
    LET rd  == Operand_read(st, r.operand)
        val == rd.val
        res == wrapping_sub8(reg, val)
    IN  IF ~Running(rd) THEN rd
        ELSE status_update_zn(status_set(rd, Status_C, reg > val), res)

compare(st, r, reg) ==
    LET rd  == Operand_read(st, r.operand)
        val == rd.val
        res == wrapping_sub8(reg, val)
    IN  IF ~Running(rd) THEN rd
        ELSE status_update_zn(status_set(rd, Status_C, reg >= val), res)

op_cmp(st, r) == compare(st, r, st.cpu.a_register)

op_cpx(st, r) == compare(st, r, st.cpu.x_register)

op_cpy(st, r) == compare(st, r, st.cpu.y_register)

op_dec(st, r) ==
    LET rd  == Operand_read(st, r.operand)
        res == wrapping_sub8(rd.val, 1)
    IN  IF ~Running(rd) THEN rd
        ELSE Operand_write(status_update_zn(rd, res), r.operand, res)

op_dex(st, r) ==
    LET res == wrapping_sub8(st.cpu.x_register, 1)
    IN  [status_update_zn(st, res) EXCEPT !.cpu.x_register = res]

op_dey(st, r) ==
    LET res == wrapping_sub8(st.cpu.y_register, 1)
    IN  [status_update_zn(st, res) EXCEPT !.cpu.y_register = res]

op_eor(st, r) ==
    LET rd  == Operand_read(st, r.operand)
        res == BitXor(rd.cpu.a_register, rd.val)
    IN  IF ~Running(rd) THEN rd
        ELSE [status_update_zn(rd, res) EXCEPT !.cpu.a_register = res]

\* INC that takes Z and N from the value before the increment
op_inc_zn_of_old_value(st, r) ==
    LET rd  == Operand_read(st, r.operand)
        res == wrapping_add8(rd.val, 1)
    IN  IF ~Running(rd) THEN rd
        ELSE Operand_write(status_update_zn(rd, rd.val), r.operand, res)

op_inc(st, r) ==
    LET rd  == Operand_read(st, r.operand)
        res == wrapping_add8(rd.val, 1)
    IN  IF ~Running(rd) THEN rd
        ELSE Operand_write(status_update_zn(rd, res), r.operand, res)

op_inx(st, r) ==
    LET res == wrapping_add8(st.cpu.x_register, 1)
    IN  [status_update_zn(st, res) EXCEPT !.cpu.x_register = res]

op_iny(st, r) ==
    LET res == wrapping_add8(st.cpu.y_register, 1)
    IN  [status_update_zn(st, res) EXCEPT !.cpu.y_register = res]

op_jmp(st, r) ==
    IF r.operand.kind = "Address"
    THEN [st EXCEPT !.cpu.program_counter = r.operand.a]
    ELSE Fail(st, Panic("Unreachable", 0))

\* the address of the next instruction pushed instead of the last byte
jsr_return_addr_next(program_counter) == program_counter

\* the address JSR pushes, from the program counter after the operand fetch
jsr_return_addr(program_counter) == wrapping_sub16(program_counter, 1)

op_jsr(st, r) ==
    IF r.operand.kind = "Address"
    THEN LET return_addr == jsr_return_addr(st.cpu.program_counter)
             return_low  == BitAnd(return_addr, 255)
             return_high == return_addr \div 256
             p1 == stack_push_u8(st, return_high)
             p2 == stack_push_u8(p1, return_low)
         IN  IF ~Running(p2) THEN p2
             ELSE [p2 EXCEPT !.cpu.program_counter = r.operand.a]
    ELSE Fail(st, Panic("Unreachable", 0))

op_lda(st, r) ==
    LET rd == Operand_read(st, r.operand)
    IN  IF ~Running(rd) THEN rd
        ELSE status_update_zn([rd EXCEPT !.cpu.a_register = rd.val], rd.val)

op_ldx(st, r) ==
    LET rd == Operand_read(st, r.operand)
    IN  IF ~Running(rd) THEN rd
        ELSE status_update_zn([rd EXCEPT !.cpu.x_register = rd.val], rd.val)

op_ldy(st, r) ==
    LET rd == Operand_read(st, r.operand)
    IN  IF ~Running(rd) THEN rd
        ELSE status_update_zn([rd EXCEPT !.cpu.y_register = rd.val], rd.val)

op_lsr(st, r) ==
    LET rd    == Operand_read(st, r.operand)
        val   == rd.val
        res   == Shr8(val)
        flags == status_update_zn(status_set(rd, Status_C, BitAnd(val, 1) > 0), res)
    IN  IF ~Running(rd) THEN rd
        ELSE Operand_write(flags, r.operand, res)

op_nop(st, r) == st

op_ora(st, r) ==
    LET rd  == Operand_read(st, r.operand)
        res == BitOr(rd.cpu.a_register, rd.val)
    IN  IF ~Running(rd) THEN rd
        ELSE [status_update_zn(rd, res) EXCEPT !.cpu.a_register = res]

op_pha(st, r) == stack_push_u8(st, st.cpu.a_register)

\* the byte PHP pushes for the status register
\* P pushed as it is
php_status_byte_plain(p) == p

php_status_byte(p) == BitOr(p, 48)

\* PHP that sets B in the register as well as in the pushed byte
op_php_sets_b(st, r) ==
    LET pushed == stack_push_u8(st, php_status_byte(st.cpu.processor_status_register))
    IN  IF ~Running(pushed) THEN pushed
        ELSE [pushed EXCEPT !.cpu.processor_status_register = BitOr(@, Status_B)]

op_php(st, r) == stack_push_u8(st, php_status_byte(st.cpu.processor_status_register))

op_phx(st, r) == stack_push_u8(st, st.cpu.x_register)

op_phy(st, r) == stack_push_u8(st, st.cpu.y_register)

op_pla(st, r) ==
    LET pl == stack_pull_u8(st)
    IN  IF ~Running(pl) THEN pl
        ELSE status_update_zn([pl EXCEPT !.cpu.a_register = pl.val], pl.val)

\* the pulled byte with the reserved bit forced but B kept
\* the pulled byte with B cleared and bit 5 as it was pushed
pulled_status_bit5_as_pulled(pulled) == BitAnd(pulled, Not8(16))

pulled_status_keep_b(pulled) == BitOr(pulled, 32)

\* what PLP and RTI make of the byte pulled for the status register:
\* (pulled | 0x20) & (!0x10)
pulled_status(pulled) == BitAnd(BitOr(pulled, 32), Not8(16))

op_plp(st, r) ==
    LET pl == stack_pull_u8(st)
    IN  IF ~Running(pl) THEN pl
        ELSE [pl EXCEPT !.cpu.processor_status_register = pulled_status(pl.val)]

op_plx(st, r) ==
    LET pl == stack_pull_u8(st)
    IN  IF ~Running(pl) THEN pl
        ELSE status_update_zn([pl EXCEPT !.cpu.x_register = pl.val], pl.val)

op_ply(st, r) ==
    LET pl == stack_pull_u8(st)
    IN  IF ~Running(pl) THEN pl
        ELSE status_update_zn([pl EXCEPT !.cpu.y_register = pl.val], pl.val)

op_rmbn(st, r, n) ==
    LET rd   == Operand_read(st, r.operand)
        mask == 2 ^ n
    IN  IF ~Running(rd) THEN rd
        ELSE Operand_write(rd, r.operand, BitAnd(rd.val, Not8(mask)))

op_rol(st, r) ==
    LET rd    == Operand_read(st, r.operand)
        val   == rd.val
        c     == (val \div 128) > 0
        res   == BitOr(Shl8(val), BoolU8(status_check(rd, Status_C)))
        flags == status_update_zn(status_set(rd, Status_C, c), res)
    IN  IF ~Running(rd) THEN rd
        ELSE Operand_write(flags, r.operand, res)

op_ror(st, r) ==
    LET rd    == Operand_read(st, r.operand)
        val   == rd.val
        c     == BitAnd(val, 1) > 0
        res   == BitOr(Shr8(val), BoolU8(status_check(rd, Status_C)) * 128)
        flags == status_update_zn(status_set(rd, Status_C, c), res)
    IN  IF ~Running(rd) THEN rd
        ELSE Operand_write(flags, r.operand, res)

\* RTI that continues one past the pulled address, as RTS does
op_rti_as_rts(st, r) ==
    LET pp   == stack_pull_u8(st)
        p    == pulled_status(pp.val)
        low  == stack_pull_u8(pp)
        high == stack_pull_u8(low)
        addr == BitOr(high.val * 256, low.val)
    IN  IF ~Running(high) THEN high
        ELSE [high EXCEPT !.cpu.processor_status_register = p,
                          !.cpu.program_counter = wrapping_add16(addr, 1)]

op_rti(st, r) ==
    LET pp   == stack_pull_u8(st)
        p    == pulled_status(pp.val)
        low  == stack_pull_u8(pp)
        high == stack_pull_u8(low)
        addr == BitOr(high.val * 256, low.val)
    IN  IF ~Running(high) THEN high
        ELSE [high EXCEPT !.cpu.processor_status_register = p,
                          !.cpu.program_counter = addr]

\* the pulled address taken as it is
rts_target_no_inc(addr) == addr

\* the address RTS continues at, from the address pulled
rts_target(addr) == wrapping_add16(addr, 1)

op_rts(st, r) ==
    LET low  == stack_pull_u8(st)
        high == stack_pull_u8(low)
        addr == BitOr(high.val * 256, low.val)
    IN  IF ~Running(high) THEN high
        ELSE [high EXCEPT !.cpu.program_counter = rts_target(addr)]

\* SBC that adds the operand as it is, not its complement
op_sbc_no_complement(st, r) ==
    LET rd    == Operand_read(st, r.operand)
        val   == rd.val
        a     == rd.cpu.a_register
        diff  == wrapping_add16(wrapping_add16(a, val),
                                BoolU8(status_check(rd, Status_C)))
        res   == diff % 256
        v     == BitAnd(BitAnd(BitXor(res, a), BitXor(a, val)), 128) # 0
        flags == status_update_zn(
                     status_set(status_set(rd, Status_C, diff > 255), Status_V, v), res)
    IN  IF ~Running(rd) THEN rd
        ELSE [flags EXCEPT !.cpu.a_register = res]

op_sbc(st, r) ==
    LET rd    == Operand_read(st, r.operand)
        val   == rd.val
        a     == rd.cpu.a_register
        diff  == wrapping_add16(wrapping_add16(a, Not8(val)),
                                BoolU8(status_check(rd, Status_C)))
        res   == diff % 256
        v     == BitAnd(BitAnd(BitXor(res, a), BitXor(a, val)), 128) # 0
        flags == status_update_zn(
                     status_set(status_set(rd, Status_C, diff > 255), Status_V, v), res)
    IN  IF ~Running(rd) THEN rd
        ELSE [flags EXCEPT !.cpu.a_register = res]

op_sec(st, r) == status_set(st, Status_C, TRUE)

op_sed(st, r) == status_set(st, Status_D, TRUE)

op_sei(st, r) == status_set(st, Status_I, TRUE)

op_smbn(st, r, n) ==
    LET rd   == Operand_read(st, r.operand)
        mask == 2 ^ n
    IN  IF ~Running(rd) THEN rd
        ELSE Operand_write(rd, r.operand, BitOr(rd.val, mask))

op_sta(st, r) == Operand_write(st, r.operand, st.cpu.a_register)

\* STP as an instruction that does nothing
op_stp_nop(st, r) == st

op_stp(st, r) == Fail(st, Panic("Unimplemented", 0))

op_stx(st, r) == Operand_write(st, r.operand, st.cpu.x_register)

op_sty(st, r) == Operand_write(st, r.operand, st.cpu.y_register)

op_stz(st, r) == Operand_write(st, r.operand, 0)

op_tax(st, r) ==
    status_update_zn([st EXCEPT !.cpu.x_register = st.cpu.a_register], st.cpu.a_register)

op_tay(st, r) ==
    status_update_zn([st EXCEPT !.cpu.y_register = st.cpu.a_register], st.cpu.a_register)

\* Z taken from the byte that is written back
op_trb_z_of_result(st, r) ==
    LET rd  == Operand_read(st, r.operand)
        val == rd.val
        res == BitAnd(val, Not8(rd.cpu.a_register))
        z   == status_set(rd, Status_Z, BitAnd(res, rd.cpu.a_register) = 0)
    IN  IF ~Running(rd) THEN rd
        ELSE Operand_write(z, r.operand, res)

op_trb(st, r) ==
    LET rd  == Operand_read(st, r.operand)
        val == rd.val
        res == BitAnd(val, Not8(rd.cpu.a_register))
        z   == status_set(rd, Status_Z, BitAnd(val, rd.cpu.a_register) = 0)
    IN  IF ~Running(rd) THEN rd
        ELSE Operand_write(z, r.operand, res)

op_tsb(st, r) ==
    LET rd  == Operand_read(st, r.operand)
        val == rd.val
        res == BitOr(val, rd.cpu.a_register)
        z   == status_set(rd, Status_Z, BitAnd(val, rd.cpu.a_register) = 0)
    IN  IF ~Running(rd) THEN rd
        ELSE Operand_write(z, r.operand, res)

op_tsx(st, r) ==
    status_update_zn([st EXCEPT !.cpu.x_register = st.cpu.stack_pointer],
                     st.cpu.stack_pointer)

op_txa(st, r) ==
    status_update_zn([st EXCEPT !.cpu.a_register = st.cpu.x_register], st.cpu.x_register)

\* TXS updating Z and N like the other transfers
op_txs_zn(st, r) ==
    status_update_zn([st EXCEPT !.cpu.stack_pointer = st.cpu.x_register],
                     st.cpu.x_register)

op_txs(st, r) == [st EXCEPT !.cpu.stack_pointer = st.cpu.x_register]

op_tya(st, r) ==
    status_update_zn([st EXCEPT !.cpu.a_register = st.cpu.y_register], st.cpu.y_register)

op_wai(st, r) == Fail(st, Panic("Unimplemented", 0))

(***************************************************************************)
(* W65C02S::OPERATIONS: the 256-entry table, entry i + 1 for opcode i.     *)
(***************************************************************************)
None == [is_some |-> FALSE, addressing_mode |-> "", mnemomic |-> "", exec |-> ""]

Some(addressing_mode, mnemomic, exec) ==
    [is_some |-> TRUE, addressing_mode |-> addressing_mode,
     mnemomic |-> mnemomic, exec |-> exec]

OPERATIONS == <<
    Some("Stack", "BRK", "op_brk"),                                \* 0x00
    Some("ZeroPageIndexedIndirect", "ORA", "op_ora"),              \* 0x01
    None,                                                          \* 0x02
    None,                                                          \* 0x03
    Some("ZeroPage", "TSB", "op_tsb"),                             \* 0x04
    Some("ZeroPage", "ORA", "op_ora"),                             \* 0x05
    Some("ZeroPage", "ASL", "op_asl"),                             \* 0x06
    Some("ZeroPage", "RMBN(0)", "op_alias_rmb0"),                  \* 0x07
    Some("Stack", "PHP", "op_php"),                                \* 0x08
    Some("Immediate", "ORA", "op_ora"),                            \* 0x09
    Some("Accumulator", "ASL", "op_asl"),                          \* 0x0A
    None,                                                          \* 0x0B
    Some("Absolute", "TSB", "op_tsb"),                             \* 0x0C
    Some("Absolute", "ORA", "op_ora"),                             \* 0x0D
    Some("Absolute", "ASL", "op_asl"),                             \* 0x0E
    Some("ZeroPageRelative", "BBRN(0)", "op_alias_bbr0"),          \* 0x0F
    Some("ProgramCounterRelative", "BPL", "op_bpl"),               \* 0x10
    Some("ZeroPageIndirectIndexedY", "ORA", "op_ora"),             \* 0x11
    Some("ZeroPageIndirect", "ORA", "op_ora"),                     \* 0x12
    None,                                                          \* 0x13
    Some("ZeroPage", "TRB", "op_trb"),                             \* 0x14
    Some("ZeroPageIndexedX", "ORA", "op_ora"),                     \* 0x15
    Some("ZeroPageIndexedX", "ASL", "op_asl"),                     \* 0x16
    Some("ZeroPage", "RMBN(1)", "op_alias_rmb1"),                  \* 0x17
    Some("Implied", "CLC", "op_clc"),                              \* 0x18
    Some("AbsoluteIndexedY", "ORA", "op_ora"),                     \* 0x19
    Some("Accumulator", "INC", "op_inc"),                          \* 0x1A
    None,                                                          \* 0x1B
    Some("Absolute", "TRB", "op_trb"),                             \* 0x1C
    Some("AbsoluteIndexedX", "ORA", "op_ora"),                     \* 0x1D
    Some("AbsoluteIndexedX", "ASL", "op_asl"),                     \* 0x1E
    Some("ZeroPageRelative", "BBRN(1)", "op_alias_bbr1"),          \* 0x1F
    Some("Absolute", "JSR", "op_jsr"),                             \* 0x20
    Some("ZeroPageIndexedIndirect", "AND", "op_and"),              \* 0x21
    None,                                                          \* 0x22
    None,                                                          \* 0x23
    Some("ZeroPage", "BIT", "op_bit"),                             \* 0x24
    Some("ZeroPage", "AND", "op_and"),                             \* 0x25
    Some("ZeroPage", "ROL", "op_rol"),                             \* 0x26
    Some("ZeroPage", "RMBN(2)", "op_alias_rmb2"),                  \* 0x27
    Some("Stack", "PLP", "op_plp"),                                \* 0x28
    Some("Immediate", "AND", "op_and"),                            \* 0x29
    Some("Accumulator", "ROL", "op_rol"),                          \* 0x2A
    None,                                                          \* 0x2B
    Some("Absolute", "BIT", "op_bit"),                             \* 0x2C
    Some("Absolute", "AND", "op_and"),                             \* 0x2D
    Some("Absolute", "ROL", "op_rol"),                             \* 0x2E
    Some("ZeroPageRelative", "BBRN(2)", "op_alias_bbr2"),          \* 0x2F
    Some("ProgramCounterRelative", "BMI", "op_bmi"),               \* 0x30
    Some("ZeroPageIndirectIndexedY", "AND", "op_and"),             \* 0x31
    Some("ZeroPageIndirect", "AND", "op_and"),                     \* 0x32
    None,                                                          \* 0x33
    Some("ZeroPageIndexedX", "BIT", "op_bit"),                     \* 0x34
    Some("ZeroPageIndexedX", "AND", "op_and"),                     \* 0x35
    Some("ZeroPageIndexedX", "ROL", "op_rol"),                     \* 0x36
    Some("ZeroPage", "RMBN(3)", "op_alias_rmb3"),                  \* 0x37
    Some("Implied", "SEC", "op_sec"),                              \* 0x38
    Some("AbsoluteIndexedY", "AND", "op_and"),                     \* 0x39
    Some("Accumulator", "DEC", "op_dec"),                          \* 0x3A
    None,                                                          \* 0x3B
    Some("AbsoluteIndexedX", "BIT", "op_bit"),                     \* 0x3C
    Some("AbsoluteIndexedX", "AND", "op_and"),                     \* 0x3D
    Some("AbsoluteIndexedX", "ROL", "op_rol"),                     \* 0x3E
    Some("ZeroPageRelative", "BBRN(3)", "op_alias_bbr3"),          \* 0x3F
    Some("Stack", "RTI", "op_rti"),                                \* 0x40
    Some("ZeroPageIndexedIndirect", "EOR", "op_eor"),              \* 0x41
    None,                                                          \* 0x42
    None,                                                          \* 0x43
    None,                                                          \* 0x44
    Some("ZeroPage", "EOR", "op_eor"),                             \* 0x45
    Some("ZeroPage", "LSR", "op_lsr"),                             \* 0x46
    Some("ZeroPage", "RMBN(4)", "op_alias_rmb4"),                  \* 0x47
    Some("Stack", "PHA", "op_pha"),                                \* 0x48
    Some("Immediate", "EOR", "op_eor"),                            \* 0x49
    Some("Accumulator", "LSR", "op_lsr"),                          \* 0x4A
    None,                                                          \* 0x4B
    Some("Absolute", "JMP", "op_jmp"),                             \* 0x4C
    Some("Absolute", "EOR", "op_eor"),                             \* 0x4D
    Some("Absolute", "LSR", "op_lsr"),                             \* 0x4E
    Some("ZeroPageRelative", "BBRN(4)", "op_alias_bbr4"),          \* 0x4F
    Some("ProgramCounterRelative", "BVC", "op_bvc"),               \* 0x50
    Some("ZeroPageIndirectIndexedY", "EOR", "op_eor"),             \* 0x51
    Some("ZeroPageIndirect", "EOR", "op_eor"),                     \* 0x52
    None,                                                          \* 0x53
    None,                                                          \* 0x54
    Some("ZeroPageIndexedX", "EOR", "op_eor"),                     \* 0x55
    Some("ZeroPageIndexedX", "LSR", "op_lsr"),                     \* 0x56
    Some("ZeroPage", "RMBN(5)", "op_alias_rmb5"),                  \* 0x57
    Some("Implied", "CLI", "op_cli"),                              \* 0x58
    Some("AbsoluteIndexedY", "EOR", "op_eor"),                     \* 0x59
    Some("Stack", "PHY", "op_phy"),                                \* 0x5A
    None,                                                          \* 0x5B
    None,                                                          \* 0x5C
    Some("AbsoluteIndexedX", "EOR", "op_eor"),                     \* 0x5D
    Some("AbsoluteIndexedX", "LSR", "op_lsr"),                     \* 0x5E
    Some("ZeroPageRelative", "BBRN(5)", "op_alias_bbr5"),          \* 0x5F
    Some("Stack", "RTS", "op_rts"),                                \* 0x60
    Some("ZeroPageIndexedIndirect", "ADC", "op_adc"),              \* 0x61
    None,                                                          \* 0x62
    None,                                                          \* 0x63
    Some("ZeroPage", "STZ", "op_stz"),                             \* 0x64
    Some("ZeroPage", "ADC", "op_adc"),                             \* 0x65
    Some("ZeroPage", "ROR", "op_ror"),                             \* 0x66
    Some("ZeroPage", "RMBN(6)", "op_alias_rmb6"),                  \* 0x67
    Some("Stack", "PLA", "op_pla"),                                \* 0x68
    Some("Immediate", "ADC", "op_adc"),                            \* 0x69
    Some("Accumulator", "ROR", "op_ror"),                          \* 0x6A
    None,                                                          \* 0x6B
    Some("AbsoluteIndirect", "JMP", "op_jmp"),                     \* 0x6C
    Some("Absolute", "ADC", "op_adc"),                             \* 0x6D
    Some("Absolute", "ROR", "op_ror"),                             \* 0x6E
    Some("ZeroPageRelative", "BBRN(6)", "op_alias_bbr6"),          \* 0x6F
    Some("ProgramCounterRelative", "BVS", "op_bvs"),               \* 0x70
    Some("ZeroPageIndirectIndexedY", "ADC", "op_adc"),             \* 0x71
    Some("ZeroPageIndirect", "ADC", "op_adc"),                     \* 0x72
    None,                                                          \* 0x73
    Some("ZeroPageIndexedX", "STZ", "op_stz"),                     \* 0x74
    Some("ZeroPageIndexedX", "ADC", "op_adc"),                     \* 0x75
    Some("ZeroPageIndexedX", "ROR", "op_ror"),                     \* 0x76
    Some("ZeroPage", "RMBN(7)", "op_alias_rmb7"),                  \* 0x77
    Some("Implied", "SEI", "op_sei"),                              \* 0x78
    Some("AbsoluteIndexedY", "ADC", "op_adc"),                     \* 0x79
    Some("Stack", "PLY", "op_ply"),                                \* 0x7A
    None,                                                          \* 0x7B
    Some("AbsoluteIndexedIndirect", "JMP", "op_jmp"),              \* 0x7C
    Some("AbsoluteIndexedX", "ADC", "op_adc"),                     \* 0x7D
    Some("AbsoluteIndexedX", "ROR", "op_ror"),                     \* 0x7E
    Some("ZeroPageRelative", "BBRN(7)", "op_alias_bbr7"),          \* 0x7F
    Some("ProgramCounterRelative", "BRA", "op_bra"),               \* 0x80
    Some("ZeroPageIndexedIndirect", "STA", "op_sta"),              \* 0x81
    None,                                                          \* 0x82
    None,                                                          \* 0x83
    Some("ZeroPage", "STY", "op_sty"),                             \* 0x84
    Some("ZeroPage", "STA", "op_sta"),                             \* 0x85
    Some("ZeroPage", "STX", "op_stx"),                             \* 0x86
    Some("ZeroPage", "SMBN(0)", "op_alias_smb0"),                  \* 0x87
    Some("Implied", "DEY", "op_dey"),                              \* 0x88
    Some("Immediate", "BIT", "op_bit"),                            \* 0x89
    Some("Implied", "TXA", "op_txa"),                              \* 0x8A
    None,                                                          \* 0x8B
    Some("Absolute", "STY", "op_sty"),                             \* 0x8C
    Some("Absolute", "STA", "op_sta"),                             \* 0x8D
    Some("Absolute", "STX", "op_stx"),                             \* 0x8E
    Some("ZeroPageRelative", "BBSN(0)", "op_alias_bbs0"),          \* 0x8F
    Some("ProgramCounterRelative", "BCC", "op_bcc"),               \* 0x90
    Some("ZeroPageIndirectIndexedY", "STA", "op_sta"),             \* 0x91
    Some("ZeroPageIndirect", "STA", "op_sta"),                     \* 0x92
    None,                                                          \* 0x93
    Some("ZeroPageIndexedX", "STY", "op_sty"),                     \* 0x94
    Some("ZeroPageIndexedX", "STA", "op_sta"),                     \* 0x95
    Some("ZeroPageIndexedY", "STX", "op_stx"),                     \* 0x96
    Some("ZeroPage", "SMBN(1)", "op_alias_smb1"),                  \* 0x97
    Some("Implied", "TYA", "op_tya"),                              \* 0x98
    Some("AbsoluteIndexedY", "STA", "op_sta"),                     \* 0x99
    Some("Implied", "TXS", "op_txs"),                              \* 0x9A
    None,                                                          \* 0x9B
    Some("AbsoluteIndexedX", "STZ", "op_stz"),                     \* 0x9C
    Some("AbsoluteIndexedX", "STA", "op_sta"),                     \* 0x9D
    Some("AbsoluteIndexedY", "STZ", "op_stz"),                     \* 0x9E
    Some("ZeroPageRelative", "BBSN(1)", "op_alias_bbs1"),          \* 0x9F
    Some("Immediate", "LDY", "op_ldy"),                            \* 0xA0
    Some("ZeroPageIndexedIndirect", "LDA", "op_lda"),              \* 0xA1
    Some("Immediate", "LDX", "op_ldx"),                            \* 0xA2
    None,                                                          \* 0xA3
    Some("ZeroPage", "LDY", "op_ldy"),                             \* 0xA4
    Some("ZeroPage", "LDA", "op_lda"),                             \* 0xA5
    Some("ZeroPage", "LDX", "op_ldx"),                             \* 0xA6
    Some("ZeroPage", "SMBN(2)", "op_alias_smb2"),                  \* 0xA7
    Some("Implied", "TAY", "op_tay"),                              \* 0xA8
    Some("Immediate", "LDA", "op_lda"),                            \* 0xA9
    Some("Implied", "TAX", "op_tax"),                              \* 0xAA
    None,                                                          \* 0xAB
    Some("Absolute", "LDY", "op_ldy"),                             \* 0xAC
    Some("Absolute", "LDA", "op_lda"),                             \* 0xAD
    Some("Absolute", "LDX", "op_ldx"),                             \* 0xAE
    Some("ZeroPageRelative", "BBSN(2)", "op_alias_bbs2"),          \* 0xAF
    Some("ProgramCounterRelative", "BCS", "op_bcs"),               \* 0xB0
    Some("ZeroPageIndirectIndexedY", "LDA", "op_lda"),             \* 0xB1
    Some("ZeroPageIndirect", "LDA", "op_lda"),                     \* 0xB2
    None,                                                          \* 0xB3
    Some("ZeroPageIndexedX", "LDY", "op_ldy"),                     \* 0xB4
    Some("ZeroPageIndexedX", "LDA", "op_lda"),                     \* 0xB5
    Some("ZeroPageIndexedY", "LDX", "op_ldx"),                     \* 0xB6
    Some("ZeroPage", "SMBN(3)", "op_alias_smb3"),                  \* 0xB7
    Some("Implied", "CLV", "op_clv"),                              \* 0xB8
    Some("AbsoluteIndexedY", "LDA", "op_lda"),                     \* 0xB9
    Some("Implied", "TSX", "op_tsx"),                              \* 0xBA
    None,                                                          \* 0xBB
    Some("AbsoluteIndexedX", "LDY", "op_ldy"),                     \* 0xBC
    Some("AbsoluteIndexedX", "LDA", "op_lda"),                     \* 0xBD
    Some("AbsoluteIndexedY", "LDX", "op_ldx"),                     \* 0xBE
    Some("ZeroPageRelative", "BBSN(3)", "op_alias_bbs3"),          \* 0xBF
    Some("Immediate", "CPY", "op_cpy"),                            \* 0xC0
    Some("ZeroPageIndexedIndirect", "CMP", "op_cmp"),              \* 0xC1
    None,                                                          \* 0xC2
    None,                                                          \* 0xC3
    Some("ZeroPage", "CPY", "op_cpy"),                             \* 0xC4
    Some("ZeroPage", "CMP", "op_cmp"),                             \* 0xC5
    Some("ZeroPage", "DEC", "op_dec"),                             \* 0xC6
    Some("ZeroPage", "SMBN(4)", "op_alias_smb4"),                  \* 0xC7
    Some("Implied", "INY", "op_iny"),                              \* 0xC8
    Some("Immediate", "CMP", "op_cmp"),                            \* 0xC9
    Some("Implied", "DEX", "op_dex"),                              \* 0xCA
    Some("Implied", "WAI", "op_wai"),                              \* 0xCB
    Some("Absolute", "CPY", "op_cpy"),                             \* 0xCC
    Some("Absolute", "CMP", "op_cmp"),                             \* 0xCD
    Some("Absolute", "DEC", "op_dec"),                             \* 0xCE
    Some("ZeroPageRelative", "BBSN(4)", "op_alias_bbs4"),          \* 0xCF
    Some("ProgramCounterRelative", "BNE", "op_bne"),               \* 0xD0
    Some("ZeroPageIndirectIndexedY", "CMP", "op_cmp"),             \* 0xD1
    Some("ZeroPageIndirect", "CMP", "op_cmp"),                     \* 0xD2
    None,                                                          \* 0xD3
    None,                                                          \* 0xD4
    Some("ZeroPageIndexedX", "CMP", "op_cmp"),                     \* 0xD5
    Some("ZeroPageIndexedX", "DEC", "op_dec"),                     \* 0xD6
    Some("ZeroPage", "SMBN(5)", "op_alias_smb5"),                  \* 0xD7
    Some("Implied", "CLD", "op_cld"),                              \* 0xD8
    Some("AbsoluteIndexedY", "CMP", "op_cmp"),                     \* 0xD9
    Some("Implied", "PHX", "op_phx"),                              \* 0xDA
    Some("Implied", "STP", "op_stp"),                              \* 0xDB
    None,                                                          \* 0xDC
    Some("AbsoluteIndexedX", "CMP", "op_cmp"),                     \* 0xDD
    Some("AbsoluteIndexedX", "DEC", "op_dec"),                     \* 0xDE
    Some("ZeroPageRelative", "BBSN(5)", "op_alias_bbs5"),          \* 0xDF
    Some("Immediate", "CPX", "op_cpx"),                            \* 0xE0
    Some("ZeroPageIndexedIndirect", "SBC", "op_sbc"),              \* 0xE1
    None,                                                          \* 0xE2
    None,                                                          \* 0xE3
    Some("ZeroPage", "CPX", "op_cpx"),                             \* 0xE4
    Some("ZeroPage", "SBC", "op_sbc"),                             \* 0xE5
    Some("ZeroPage", "INC", "op_inc"),                             \* 0xE6
    Some("ZeroPage", "SMBN(6)", "op_alias_smb6"),                  \* 0xE7
    Some("Implied", "INX", "op_inx"),                              \* 0xE8
    Some("Immediate", "SBC", "op_sbc"),                            \* 0xE9
    Some("Implied", "NOP", "op_nop"),                              \* 0xEA
    None,                                                          \* 0xEB
    Some("Absolute", "CPX", "op_cpx"),                             \* 0xEC
    Some("Absolute", "SBC", "op_sbc"),                             \* 0xED
    Some("Absolute", "INC", "op_inc"),                             \* 0xEE
    Some("ZeroPageRelative", "BBSN(6)", "op_alias_bbs6"),          \* 0xEF
    Some("ProgramCounterRelative", "BEQ", "op_beq"),               \* 0xF0
    Some("ZeroPageIndirectIndexedY", "SBC", "op_sbc"),             \* 0xF1
    Some("ZeroPageIndirect", "SBC", "op_sbc"),                     \* 0xF2
    None,                                                          \* 0xF3
    None,                                                          \* 0xF4
    Some("ZeroPageIndexedX", "SBC", "op_sbc"),                     \* 0xF5
    Some("ZeroPageIndexedX", "INC", "op_inc"),                     \* 0xF6
    Some("ZeroPage", "SMBN(7)", "op_alias_smb7"),                  \* 0xF7
    Some("Implied", "SED", "op_sed"),                              \* 0xF8
    Some("AbsoluteIndexedY", "SBC", "op_sbc"),                     \* 0xF9
    Some("Stack", "PLX", "op_plx"),                                \* 0xFA
    None,                                                          \* 0xFB
    None,                                                          \* 0xFC
    Some("AbsoluteIndexedX", "SBC", "op_sbc"),                     \* 0xFD
    Some("AbsoluteIndexedX", "INC", "op_inc"),                     \* 0xFE
    Some("ZeroPageRelative", "BBSN(7)", "op_alias_bbs7")           \* 0xFF
>>

\* (operation.exec)(self, bus, operand): the call through the fn pointer.  The
\* op_alias_* functions pass their fixed bit index n to the shared handler.
exec(f, st, r) ==
    CASE f = "op_adc"         -> op_adc(st, r)
      [] f = "op_alias_bbr0"  -> op_bbrn(st, r, 0)
      [] f = "op_alias_bbr1"  -> op_bbrn(st, r, 1)
      [] f = "op_alias_bbr2"  -> op_bbrn(st, r, 2)
      [] f = "op_alias_bbr3"  -> op_bbrn(st, r, 3)
      [] f = "op_alias_bbr4"  -> op_bbrn(st, r, 4)
      [] f = "op_alias_bbr5"  -> op_bbrn(st, r, 5)
      [] f = "op_alias_bbr6"  -> op_bbrn(st, r, 6)
      [] f = "op_alias_bbr7"  -> op_bbrn(st, r, 7)
      [] f = "op_alias_bbs0"  -> op_bbsn(st, r, 0)
      [] f = "op_alias_bbs1"  -> op_bbsn(st, r, 1)
      [] f = "op_alias_bbs2"  -> op_bbsn(st, r, 2)
      [] f = "op_alias_bbs3"  -> op_bbsn(st, r, 3)
      [] f = "op_alias_bbs4"  -> op_bbsn(st, r, 4)
      [] f = "op_alias_bbs5"  -> op_bbsn(st, r, 5)
      [] f = "op_alias_bbs6"  -> op_bbsn(st, r, 6)
      [] f = "op_alias_bbs7"  -> op_bbsn(st, r, 7)
      [] f = "op_alias_rmb0"  -> op_rmbn(st, r, 0)
      [] f = "op_alias_rmb1"  -> op_rmbn(st, r, 1)
      [] f = "op_alias_rmb2"  -> op_rmbn(st, r, 2)
      [] f = "op_alias_rmb3"  -> op_rmbn(st, r, 3)
      [] f = "op_alias_rmb4"  -> op_rmbn(st, r, 4)
      [] f = "op_alias_rmb5"  -> op_rmbn(st, r, 5)
      [] f = "op_alias_rmb6"  -> op_rmbn(st, r, 6)
      [] f = "op_alias_rmb7"  -> op_rmbn(st, r, 7)
      [] f = "op_alias_smb0"  -> op_smbn(st, r, 0)
      [] f = "op_alias_smb1"  -> op_smbn(st, r, 1)
      [] f = "op_alias_smb2"  -> op_smbn(st, r, 2)
      [] f = "op_alias_smb3"  -> op_smbn(st, r, 3)
      [] f = "op_alias_smb4"  -> op_smbn(st, r, 4)
      [] f = "op_alias_smb5"  -> op_smbn(st, r, 5)
      [] f = "op_alias_smb6"  -> op_smbn(st, r, 6)
      [] f = "op_alias_smb7"  -> op_smbn(st, r, 7)
      [] f = "op_and"         -> op_and(st, r)
      [] f = "op_asl"         -> op_asl(st, r)
      [] f = "op_bcc"         -> op_bcc(st, r)
      [] f = "op_bcs"         -> op_bcs(st, r)
      [] f = "op_beq"         -> op_beq(st, r)
      [] f = "op_bit"         -> op_bit(st, r)
      [] f = "op_bmi"         -> op_bmi(st, r)
      [] f = "op_bne"         -> op_bne(st, r)
      [] f = "op_bpl"         -> op_bpl(st, r)
      [] f = "op_bra"         -> op_bra(st, r)
      [] f = "op_brk"         -> op_brk(st, r)
      [] f = "op_bvc"         -> op_bvc(st, r)
      [] f = "op_bvs"         -> op_bvs(st, r)
      [] f = "op_clc"         -> op_clc(st, r)
      [] f = "op_cld"         -> op_cld(st, r)
      [] f = "op_cli"         -> op_cli(st, r)
      [] f = "op_clv"         -> op_clv(st, r)
      [] f = "op_cmp"         -> op_cmp(st, r)
      [] f = "op_cpx"         -> op_cpx(st, r)
      [] f = "op_cpy"         -> op_cpy(st, r)
      [] f = "op_dec"         -> op_dec(st, r)
      [] f = "op_dex"         -> op_dex(st, r)
      [] f = "op_dey"         -> op_dey(st, r)
      [] f = "op_eor"         -> op_eor(st, r)
      [] f = "op_inc"         -> op_inc(st, r)
      [] f = "op_inx"         -> op_inx(st, r)
      [] f = "op_iny"         -> op_iny(st, r)
      [] f = "op_jmp"         -> op_jmp(st, r)
      [] f = "op_jsr"         -> op_jsr(st, r)
      [] f = "op_lda"         -> op_lda(st, r)
      [] f = "op_ldx"         -> op_ldx(st, r)
      [] f = "op_ldy"         -> op_ldy(st, r)
      [] f = "op_lsr"         -> op_lsr(st, r)
      [] f = "op_nop"         -> op_nop(st, r)
      [] f = "op_ora"         -> op_ora(st, r)
      [] f = "op_pha"         -> op_pha(st, r)
      [] f = "op_php"         -> op_php(st, r)
      [] f = "op_phx"         -> op_phx(st, r)
      [] f = "op_phy"         -> op_phy(st, r)
      [] f = "op_pla"         -> op_pla(st, r)
      [] f = "op_plp"         -> op_plp(st, r)
      [] f = "op_plx"         -> op_plx(st, r)
      [] f = "op_ply"         -> op_ply(st, r)
      [] f = "op_rol"         -> op_rol(st, r)
      [] f = "op_ror"         -> op_ror(st, r)
      [] f = "op_rti"         -> op_rti(st, r)
      [] f = "op_rts"         -> op_rts(st, r)
      [] f = "op_sbc"         -> op_sbc(st, r)
      [] f = "op_sec"         -> op_sec(st, r)
      [] f = "op_sed"         -> op_sed(st, r)
      [] f = "op_sei"         -> op_sei(st, r)
      [] f = "op_sta"         -> op_sta(st, r)
      [] f = "op_stp"         -> op_stp(st, r)
      [] f = "op_stx"         -> op_stx(st, r)
      [] f = "op_sty"         -> op_sty(st, r)
      [] f = "op_stz"         -> op_stz(st, r)
      [] f = "op_tax"         -> op_tax(st, r)
      [] f = "op_tay"         -> op_tay(st, r)
      [] f = "op_trb"         -> op_trb(st, r)
      [] f = "op_tsb"         -> op_tsb(st, r)
      [] f = "op_tsx"         -> op_tsx(st, r)
      [] f = "op_txa"         -> op_txa(st, r)
      [] f = "op_txs"         -> op_txs(st, r)
      [] f = "op_tya"         -> op_tya(st, r)
      [] f = "op_wai"         -> op_wai(st, r)

(***************************************************************************)
(* W65C02S::step and W65C02S::reset.                                       *)
(***************************************************************************)
\* the table with every None entry read as a one-byte NOP
operation_at_nop(opcode) ==
    IF OPERATIONS[opcode + 1].is_some
    THEN OPERATIONS[opcode + 1]
    ELSE Some("Implied", "NOP", "op_nop")

\* the table with JMP absolute (0x4C) entered as an implied instruction
operation_at_jmp_implied(opcode) ==
    IF opcode = 76 THEN Some("Implied", "JMP", "op_jmp") ELSE OPERATIONS[opcode + 1]

\* the table with the slot of 0xCB (WAI) empty
operation_at_no_wai(opcode) ==
    IF opcode = 203 THEN None ELSE OPERATIONS[opcode + 1]

\* Self::OPERATIONS[opcode as usize]
operation_at(opcode) == OPERATIONS[opcode + 1]

\* W65C02S::step, line 366: Ok(operation.mnemomic) once the handler returned
step_return(done, operation) ==
    IF ~Running(done) THEN done
    ELSE Return(done, operation.mnemomic)

\* W65C02S::step, line 359: (operation.exec)(self, bus, operand)?
step_exec(operand, operation) ==
    IF ~Running(operand) THEN operand
    ELSE step_return(exec(operation.exec, operand, operand.val), operation)

\* the decode that puts the program counter back on the refused opcode
step_decode_rewind(f, operation) ==
    IF ~Running(f) THEN f
    ELSE IF ~operation.is_some
    THEN Fail([f EXCEPT !.cpu.program_counter = (@ + 65535) % 65536],
              Err("InvalidOpcode", f.val))
    ELSE step_exec(resolve_operand(f, operation.addressing_mode), operation)

\* W65C02S::step, lines 356-358: the table lookup, ok_or(InvalidOpcode)? and
\* resolve_operand, on the record f left by the opcode fetch
step_decode(f, operation) ==
    IF ~Running(f) THEN f
    ELSE IF ~operation.is_some THEN Fail(f, Err("InvalidOpcode", f.val))
    ELSE step_exec(resolve_operand(f, operation.addressing_mode), operation)

\* W65C02S::step: on Ok the record returned carries the mnemonic in val
step(st) == step_decode(fetch_u8(st), operation_at(fetch_u8(st).val))

\* the reset that also sets SP to 0xFD
reset_with_sp(st) ==
    LET entry == read_u16(st, RESB_LOW)
    IN  IF ~Running(entry) THEN entry
        ELSE [set_p_default(entry) EXCEPT !.cpu.program_counter = entry.val,
                                          !.cpu.stack_pointer = 253]

\* W65C02S::reset
reset(st) ==
    LET entry == read_u16(st, RESB_LOW)
    IN  IF ~Running(entry) THEN entry
        ELSE [set_p_default(entry) EXCEPT !.cpu.program_counter = entry.val]

(***************************************************************************)
(* ROM images.  An image is the byte slice handed to                       *)
(* Machine::new_32k_ram_32k_rom; byte i of it is seen by the CPU at        *)
(* address 0x8000 + i.  Programs are written with CPU addresses.           *)
(***************************************************************************)
MaxSteps  == 6
MaxResets == 1

\* the bytes of seq placed from CPU address addr on
At(addr, seq) ==
    [i \in {addr - 32768 + k - 1 : k \in 1..Len(seq)} |-> seq[i - (addr - 32768) + 1]]

\* the reset vector at 0xFFFC/0xFFFD and the IRQ/BRK vector at 0xFFFE/0xFFFF
Vectors(reset_to, irq_to) ==
    At(65532, <<reset_to % 256, reset_to \div 256, irq_to % 256, irq_to \div 256>>)

Image(bytes) == [len |-> 32768, bytes |-> bytes]

\* operand bytes of the one-instruction programs: as an address byte page
\* zero, the first and the last ROM page; as a branch offset 0, -128 and -1
OperandBytes == {0, 128, 255}

\* every opcode byte once, at the reset target, with every pair of
\* operand bytes; the IRQ/BRK vector leads to the same place
OneInstruction ==
    {Image(At(32768, <<op, b1, b2>>) @@ Vectors(32768, 32768)) :
        op \in 0..255, b1 \in OperandBytes, b2 \in OperandBytes}

\* LDX #sp; TXS; JSR target ... target: RTS
CallReturn ==
    {Image(At(32768, <<162, sp, 154, 32, target % 256, target \div 256>>)
           @@ At(target, <<96>>) @@ Vectors(32768, 32768)) :
        sp \in {0, 1, 2, 128, 255}, target \in {32774, 36864, 65520}}

\* A JSR whose last byte is at 0xFFFF, so that its return address is taken
\* from a program counter that wrapped to 0x0000:
\*   reset -> 0x207E (RAM, BRK) -> 0x9000: RTS -> 0x8035: JMP $FFFB
\*   0xFFFB: LDA #$7E; 0xFFFD: JSR $9000 -> 0x9000: RTS
CallReturnWrap ==
    {Image(At(36864, <<96>>) @@ At(32821, <<76, 251, 255>>)
           @@ At(65531, <<169, 126, 32, 0, 144>>))}

\* LDA #v; PHA; then PLP, PHP / PLP, BRK / RTI: every byte as a pulled status
PullStatus ==
    {Image(At(32768, <<169, v>> \o tail) @@ Vectors(32768, irq_to)) :
        v \in 0..255,
        tail \in {<<72, 40, 8>>, <<72, 40, 0>>, <<72, 64>>},
        irq_to \in {32768}}

\* an empty ROM behind each pair of vectors: the CPU runs into BRK
VectorsOnly ==
    {Image(Vectors(reset_to, irq_to)) :
        reset_to \in {0, 255, 4660, 32768, 32848, 65280, 65535},
        irq_to \in {0, 49152, 65535}}

\* 0xA000: LDX #$FF; TXS; JMP $8000   0x8000: JSR $9000   0x9000: RTS
CallAtStackTop ==
    {Image(At(40960, <<162, 255, 154, 76, 0, 128>>) @@ At(32768, <<32, 0, 144>>)
           @@ At(36864, <<96>>) @@ Vectors(40960, 49152))}

\* LDA #p; PHA; PLP; BRK with RTI at the IRQ vector target 0x9000, and
\* LDA #$40; STA $10; JMP $FFFF with BRK at 0xFFFF and RTI at the target 0x0010
BreakReturn ==
    {Image(At(32768, <<169, p, 72, 40, 0>>) @@ At(36864, <<64>>)
           @@ Vectors(32768, 36864)) : p \in {0, 1, 195, 255}}
    \cup {Image(At(32768, <<169, 64, 133, 16, 76, 255, 255>>) @@ Vectors(32768, 16))}

Images == OneInstruction \cup CallReturn \cup CallReturnWrap \cup CallAtStackTop
          \cup PullStatus \cup VectorsOnly \cup BreakReturn

(***************************************************************************)
(* The emulator as a state machine: a machine is built from an image, a    *)
(* CPU is created, and the caller calls reset and step.                    *)
(***************************************************************************)
Cur == [cpu |-> cpu, bus |-> machine, fault |-> NoFault, val |-> 0]

\* what a call returned: Ok (with the mnemonic for step), or the fault
Outcome(st, v) ==
    IF Running(st) THEN [kind |-> "Ok", what |-> v, code |-> 0] ELSE st.fault

Call(op, address, val) == [op |-> op, address |-> address, val |-> val]

\* main: W65C02S::default() and Machine::new_32k_ram_32k_rom(image)
Init ==
    /\ \E image \in Images : machine = new_32k_ram_32k_rom(image)
    /\ cpu = W65C02S_default
    /\ result = NoFault
    /\ steps = 0
    /\ resets = 0
    /\ before = W65C02S_default
    /\ called = Call("new", 0, 0)

\* a panic ends the process: nothing is called after it
Alive == result.kind # "Panic"

Reset ==
    /\ Alive
    /\ resets < MaxResets
    /\ \E s \in {reset(Cur)} :
          /\ cpu' = s.cpu
          /\ machine' = s.bus
          /\ result' = Outcome(s, "")
    /\ resets' = resets + 1
    /\ before' = cpu
    /\ called' = Call("reset", 0, 0)
    /\ UNCHANGED steps

Step ==
    /\ Alive
    /\ steps < MaxSteps
    /\ \E s \in {step(Cur)} :
          /\ cpu' = s.cpu
          /\ machine' = s.bus
          /\ result' = Outcome(s, s.val)
    /\ steps' = steps + 1
    /\ before' = cpu
    /\ called' = Call("step", 0, 0)
    /\ UNCHANGED resets

Next == Reset \/ Step

Spec == Init /\ [][Next]_vars

(***************************************************************************)
(* The bus alone: a machine is built and its Bus methods read and write    *)
(* are called with addresses from every kind of page.                      *)
(***************************************************************************)
MaxWritten == 2

\* page zero, the stack page, the last RAM page, the first ROM page, the
\* vectors in the last ROM page
BusAddresses == {0, 255, 256, 511, 32767, 32768, 33023, 65532, 65535}

BusValues == {0, 1, 255}

BusImages ==
    {Image(At(32768, <<v, 7>>) @@ At(33023, <<v>>) @@ Vectors(4660, 49152)) :
        v \in {0, 90, 255}}

InitBus ==
    /\ \E image \in BusImages : machine = new_32k_ram_32k_rom(image)
    /\ cpu = W65C02S_default
    /\ result = NoFault
    /\ steps = 0
    /\ resets = 0
    /\ before = W65C02S_default
    /\ called = Call("new", 0, 0)

ReadCall ==
    /\ Alive
    /\ \E address \in BusAddresses :
          /\ \E s \in {read(Cur, address)} :
                /\ machine' = s.bus
                /\ result' = IF Running(s)
                             THEN [kind |-> "Ok", what |-> "", code |-> s.val]
                             ELSE s.fault
          /\ called' = Call("read", address, 0)
    /\ UNCHANGED <<cpu, steps, resets, before>>

WriteCall ==
    /\ Alive
    /\ \E address \in BusAddresses, val \in BusValues :
          /\ machine.page_map[address \div 256].kind = "RAM"
                => Cardinality(DOMAIN machine.ram.bytes \cup {split_address(address)})
                      <= MaxWritten
          /\ \E s \in {write(Cur, address, val)} :
                /\ machine' = s.bus
                /\ result' = Outcome(s, "")
          /\ called' = Call("write", address, val)
    /\ UNCHANGED <<cpu, steps, resets, before>>

NextBus == ReadCall \/ WriteCall

BusSpec == InitBus /\ [][NextBus]_vars

(***************************************************************************)
(* Building and loading: Machine::new_32k_ram_32k_rom on images of every   *)
(* length around the 32 KiB of the ROM, and Machine::load_ram on byte      *)
(* sequences of every length around the 32 KiB of the RAM, between reads   *)
(* and writes.  called.address is the length of the image or the sequence, *)
(* called.val the place of the sequence in RamLoads.                       *)
(***************************************************************************)
\* images of 0, 3 and 32768 bytes, and of one byte and many too many
LoadImages ==
    {[len |-> 0, bytes |-> <<>>],
     [len |-> 3, bytes |-> At(32768, <<90, 7, 9>>)],
     [len |-> 32768, bytes |-> At(32768, <<2>>) @@ At(33023, <<3, 4>>) @@ At(65535, <<255>>)],
     [len |-> 32769, bytes |-> At(32768, <<5>>) @@ At(65535, <<6, 7>>)],
     [len |-> 40000, bytes |-> At(32768, <<8>>) @@ At(72767, <<9>>)]}

\* byte sequences of 0, 2, 257, 32768, 32769 and 40000 bytes; index 255
\* of the third is a zero the load has to store
RamLoads ==
    <<[len |-> 0, bytes |-> <<>>],
      [len |-> 2, bytes |-> At(32768, <<0, 18>>)],
      [len |-> 257, bytes |-> At(32768, <<19>>) @@ At(33024, <<20>>)],
      [len |-> 32768, bytes |-> At(32768, <<21>>) @@ At(65535, <<22>>)],
      [len |-> 32769, bytes |-> At(32768, <<23>>) @@ At(65535, <<24, 25>>)],
      [len |-> 40000, bytes |-> At(32769, <<26>>) @@ At(72767, <<27>>)]>>

\* Machine::new_32k_ram_32k_rom: when rom.load refuses the image the
\* constructor panics with ram and rom made and the page map not yet built
InitLoad ==
    /\ \E image \in LoadImages :
          LET loaded == ROMSegment_load(Segment_new(128), image)
          IN  /\ called = Call("new", image.len, 0)
              /\ IF loaded.ok
                 THEN /\ machine = new_32k_ram_32k_rom(image)
                      /\ result = NoFault
                 ELSE /\ machine = [ram      |-> Segment_new(128),
                                    rom      |-> loaded.seg,
                                    page_map |-> [page \in 0..255 |-> Unmapped]]
                      /\ result = Panic("RomImageExceeded", image.len)
    /\ cpu = W65C02S_default
    /\ steps = 0
    /\ resets = 0
    /\ before = W65C02S_default

\* Machine::load_ram(bytes)
LoadRamCall ==
    /\ Alive
    /\ \E k \in DOMAIN RamLoads :
          /\ \E s \in {RAMSegment_load(Cur, RamLoads[k])} :
                /\ machine' = s.bus
                /\ result' = Outcome(s, "")
          /\ called' = Call("load_ram", RamLoads[k].len, k)
    /\ UNCHANGED <<cpu, steps, resets, before>>

NextLoad == LoadRamCall \/ ReadCall \/ WriteCall

LoadSpec == InitLoad /\ [][NextLoad]_vars

(***************************************************************************)
(* The driver: main creates the CPU and the machine, calls reset once and  *)
(* then calls step until it returns BRK or an error.  Every program ends   *)
(* in BRK (the 0x00 of the unused ROM), so every run of the driver ends.   *)
(***************************************************************************)
MaxRun == 260

\* The programs the driver is run on, each at the reset target 0x8000.
MainImages ==
    LET \* register and operand values at the carries, sign changes and ends
        Sample == {0, 1, 15, 16, 63, 64, 80, 127, 128, 129, 144, 160, 176,
                   208, 240, 254, 255}
        Program(code) == Image(At(32768, code) @@ Vectors(32768, 0))
        \* LDA #p; PHA; LDA #a; PLP: A = a, P = p with bit 5 set, B cleared
        SetAP(a, p) == <<169, p, 72, 169, a, 40>>
        \* ADC #m and SBC #m from every sampled A and m, with C clear and
        \* set, with N, V, Z set beforehand, and with D set
        AluPrograms ==
            {Program(SetAP(a, p) \o <<op, m>>) :
                a \in Sample, m \in Sample, p \in {0, 1, 194, 203},
                op \in {105, 233}}
        \* LDX #sp; TXS; load v; load w into another register (Z and N
        \* now follow w); push v; pull it
        PushPullPrograms ==
            {Program(<<162, sp, 154>> \o <<ops[1], v, ops[2], w, ops[3], ops[4]>>) :
                sp \in {0, 255}, v \in 0..255, w \in {0, 128},
                ops \in {<<169, 160, 72, 104>>, <<162, 160, 218, 250>>,
                         <<160, 169, 90, 122>>}}
        Repeat(seq, n) ==
            [i \in 1..(n * Len(seq)) |-> seq[((i - 1) % Len(seq)) + 1]]
        \* LDA #v; then INC A, or STA $10 and INC $10, or STA $0200 and
        \* INC $0200, the INC 256 times in a row
        IncPrograms ==
            {Program(<<169, v>> \o body) :
                v \in Sample,
                body \in {Repeat(<<26>>, 256),
                          <<133, 16>> \o Repeat(<<230, 16>>, 256),
                          <<141, 0, 2>> \o Repeat(<<238, 0, 2>>, 256)}}
        \* BIT #m, and BIT on m at 0x9000 (abs; abs,X with X = 1 from
        \* 0x8FFF) and at 0x0010 (zp; zp,X with X = 1 from 0x0F), with
        \* N, V, Z clear and set beforehand
        BitParts(m) ==
            << << <<>>, <<137, m>> >>,
               << <<>>, <<44, 0, 144>> >>,
               << <<162, 1>>, <<60, 255, 143>> >>,
               << <<169, m, 133, 16>>, <<36, 16>> >>,
               << <<169, m, 133, 16, 162, 1>>, <<52, 15>> >> >>
        BitPrograms ==
            {Image(At(32768, BitParts(m)[k][1] \o SetAP(a, p) \o BitParts(m)[k][2])
                   @@ At(36864, <<m>>) @@ Vectors(32768, 0)) :
                a \in {0, 1, 64, 128, 192, 255},
                m \in {0, 1, 63, 64, 127, 128, 192, 255},
                p \in {0, 194}, k \in 1..5}
        \* LDA #p; PHA; PLP: P = p with bit 5 set, B cleared
        SetP(p) == <<169, p, 72, 40>>
        \* a branch at 0x8004, at 0xFFF0 (forward offsets wrap to page
        \* zero) and at 0x0000 in RAM (backward offsets wrap to 0xFFxx),
        \* with each of C, Z, V, N set alone, none and all of them
        BranchAt(op, o, p) ==
            <<Image(At(32768, SetP(p) \o <<op, o>>) @@ Vectors(32768, 0)),
              Image(At(32768, SetP(p) \o <<76, 240, 255>>) @@ At(65520, <<op, o>>)
                    @@ Vectors(32768, 0)),
              Program(<<169, op, 133, 0, 169, o, 133, 1>> \o SetP(p) \o <<76, 0, 0>>)>>
        BranchPrograms ==
            {BranchAt(op, o, p)[k] :
                op \in {144, 176, 240, 208, 48, 16, 80, 112, 128},
                o \in {0, 1, 127, 128, 255},
                p \in {0, 1, 2, 64, 128, 195}, k \in 1..3}
        \* a pointer lo/hi stored at p and (p + 1) mod 256, another high
        \* byte at 0x0100, then a load through each indexed or indirect
        \* zero-page mode that lands on p; k picks the load
        ZeroPageLoad(p, x, y) ==
            <<<<181, (p + 256 - x) % 256>>, <<182, (p + 256 - y) % 256>>,
              <<161, (p + 256 - x) % 256>>, <<178, p>>, <<177, p>>>>
        ZeroPagePrograms ==
            {Image(At(32768, <<169, ptr[1], 133, p, 169, ptr[2], 133, (p + 1) % 256,
                               169, 145, 141, 0, 1, 162, x, 160, y>>
                             \o ZeroPageLoad(p, x, y)[k])
                   @@ At(36882, <<85, 86>>) @@ At(37137, <<87, 102>>)
                   @@ Vectors(32768, 0)) :
                p \in {0, 128, 255}, x \in {0, 1, 255}, y \in {0, 1, 255},
                ptr \in {<<52, 18>>, <<18, 144>>}, k \in 1..5}
        \* a register loaded with r and compared with m: immediate, in
        \* zero page (RAM) and absolute (ROM); ops = load, the three compares
        CompareParts(ops, r, m) ==
            << << <<>>, <<ops[1], r, ops[2], m>> >>,
               << <<169, m, 133, 16>>, <<ops[1], r, ops[3], 16>> >>,
               << <<>>, <<ops[1], r, ops[4], 0, 144>> >> >>
        ComparePrograms ==
            {Image(At(32768, CompareParts(ops, r, m)[k][1] \o SetP(p)
                             \o CompareParts(ops, r, m)[k][2])
                   @@ At(36864, <<m>>) @@ Vectors(32768, 0)) :
                ops \in {<<169, 201, 197, 205>>, <<162, 224, 228, 236>>,
                         <<160, 192, 196, 204>>},
                r \in {0, 1, 127, 128, 129, 255}, m \in {0, 1, 127, 128, 129, 255},
                p \in {0, 195}, k \in 1..3}
        \* each flag instruction twice in a row, from P = p
        FlagPrograms ==
            {Program(SetP(p) \o <<op, op>>) :
                op \in {24, 56, 88, 120, 184, 216, 248},
                p \in {0, 1, 2, 4, 8, 64, 128, 195, 190, 247, 251, 254, 255}}
        \* WAI or STP first or after LDA #v, with LDX #1 behind it
        HaltPrograms ==
            {Program(pre \o <<op, 162, 1>>) :
                op \in {203, 219}, pre \in {<<>>} \cup {<<169, v>> : v \in Sample}}
        \* LDA #v; STA $0200 and then BRK or an opcode with no table entry,
        \* with LDX #1 behind it
        EndPrograms ==
            {Program(<<169, v, 141, 0, 2, op, 162, 1>>) : v \in {1, 255}, op \in {0, 2, 3}}
        \* PHP; PLP from P = p with SP = sp
        StatusPrograms ==
            {Program(<<162, sp, 154>> \o SetP(p) \o <<8, 40>>) :
                sp \in {0, 1, 128, 255},
                p \in {0, 1, 2, 4, 8, 64, 128, 195, 190, 247, 251, 254, 255}}
        \* m stored at 0x0010 or 0x0200, then TRB or TSB on it with A = a
        TestBitsParts(m) ==
            << <<<<133, 16>>, <<20, 16>>>>, <<<<133, 16>>, <<4, 16>>>>,
               <<<<141, 0, 2>>, <<28, 0, 2>>>>, <<<<141, 0, 2>>, <<12, 0, 2>>>> >>
        TestBitsPrograms ==
            {Program(<<169, m>> \o TestBitsParts(m)[k][1] \o SetAP(a, p)
                     \o TestBitsParts(m)[k][2]) :
                a \in {0, 1, 2, 15, 16, 85, 127, 128, 170, 240, 254, 255},
                m \in {0, 1, 2, 15, 16, 85, 127, 128, 170, 240, 254, 255},
                p \in {0, 195}, k \in 1..4}
        \* m stored at zp, then BBRn or BBSn on it: at 0x8008 with the
        \* flags clear, at 0x8008 on 0x00FF with the flags set, at 0xFFF0
        BitBranchAt(op, m, o) ==
            <<Program(<<169, m, 133, 16>> \o SetP(0) \o <<op, 16, o>>),
              Program(<<169, m, 133, 255>> \o SetP(195) \o <<op, 255, o>>),
              Image(At(32768, <<169, m, 133, 16>> \o SetP(195) \o <<76, 240, 255>>)
                    @@ At(65520, <<op, 16, o>>) @@ Vectors(32768, 0))>>
        BitBranchPrograms ==
            {BitBranchAt(15 + 16 * n, m, o)[k] :
                n \in 0..15, m \in {0, 1, 85, 128, 170, 255},
                o \in {0, 127, 128, 255}, k \in 1..3}
        \* a store or a transfer with registers regs = <<A, X, Y, SP>> and
        \* P = p; the stores go to RAM (page zero or 0x02xx)
        MovePrograms ==
            {Program(<<162, regs[4], 154, 162, regs[2], 160, regs[3]>>
                     \o SetAP(regs[1], p) \o move) :
                regs \in {<<0, 1, 128, 255>>, <<128, 0, 1, 127>>, <<255, 128, 0, 0>>,
                          <<1, 255, 127, 128>>, <<127, 127, 255, 1>>},
                p \in {0, 2, 128, 195},
                move \in {<<op, 16>> : op \in {133, 149, 129, 145, 146, 134, 150,
                                                132, 148, 100, 116}}
                     \cup {<<op, 0, 2>> : op \in {141, 157, 153, 142, 140, 156, 158}}
                     \cup {<<op>> : op \in {154, 170, 168, 186, 138, 152}}}
        \* LDA #$FF; STA $0200; STA $0201; STA $0202; LDX #1; LDY #2; then
        \* opcode 0x9C or 0x9E with the operand $0200
        StzPrograms ==
            {Program(<<169, 255, 141, 0, 2, 141, 1, 2, 141, 2, 2, 162, 1, 160, 2,
                       op, 0, 2>>) : op \in {156, 158}}
    IN  StzPrograms \cup AluPrograms \cup PushPullPrograms \cup IncPrograms \cup BitPrograms
        \cup StatusPrograms \cup TestBitsPrograms \cup BitBranchPrograms
        \cup MovePrograms
        \cup BranchPrograms \cup ZeroPagePrograms \cup ComparePrograms
        \cup FlagPrograms \cup HaltPrograms \cup EndPrograms

\* main, lines 98-107, on the bytes fs::read returned.  The slice
\* &rom[0x8000..] is taken first and panics when the file has fewer than
\* 0x8000 bytes; the constructor panics when the slice has more than 32 KiB;
\* the length test of lines 105-107 comes after both.  Where no Machine
\* value came to exist, machine is what had been made of it by then.
main_open(rom) ==
    IF 32768 > rom.len
    THEN [fault   |-> Panic("SliceStartOutOfRange", rom.len),
          machine |-> [ram      |-> Segment_new(0),
                       rom      |-> Segment_new(0),
                       page_map |-> [page \in 0..255 |-> Unmapped]]]
    ELSE LET rom_image == [len   |-> rom.len - 32768,
                           bytes |-> [i \in {j - 32768 : j \in {k \in DOMAIN rom.bytes : k >= 32768}}
                                         |-> rom.bytes[i + 32768]]]
             loaded    == ROMSegment_load(Segment_new(128), rom_image)
         IN  IF ~loaded.ok
             THEN [fault   |-> Panic("RomImageExceeded", rom_image.len),
                   machine |-> [ram      |-> Segment_new(128),
                                rom      |-> loaded.seg,
                                page_map |-> [page \in 0..255 |-> Unmapped]]]
             ELSE IF rom.len < 32768
             THEN [fault   |-> Err("MalformedRomFile", 0),
                   machine |-> new_32k_ram_32k_rom(rom_image)]
             ELSE [fault   |-> NoFault,
                   machine |-> new_32k_ram_32k_rom(rom_image)]

\* The ROM file is 64 KiB with a program image as its upper half, or a file
\* of another length: empty, one byte, one byte short of 32 KiB, 32 KiB,
\* one byte more, and one byte and many more than 64 KiB.  called.address
\* is the length of the file.
MainInit ==
    /\ \E rom \in {[len   |-> 65536,
                     bytes |-> [j \in {i + 32768 : i \in DOMAIN image.bytes}
                                   |-> image.bytes[j - 32768]]] : image \in MainImages}
                  \cup {[len |-> n, bytes |-> [j \in {i \in {0, 32768} : i < n} |-> 234]] :
                           n \in {0, 1, 32767, 32768, 32769, 65537, 70000}} :
          /\ machine = main_open(rom).machine
          /\ result = main_open(rom).fault
          /\ called = Call("new", rom.len, 0)
    /\ cpu = W65C02S_default
    /\ steps = 0
    /\ resets = 0
    /\ before = W65C02S_default

\* main, line 110: cpu.reset(&mut machine_bus), once, before the loop
MainReset ==
    /\ called.op = "new"
    /\ result = NoFault
    /\ \E s \in {reset(Cur)} :
          /\ cpu' = s.cpu
          /\ machine' = s.bus
          /\ result' = Outcome(s, "")
    /\ resets' = resets + 1
    /\ before' = cpu
    /\ called' = Call("reset", 0, 0)
    /\ UNCHANGED steps

\* the loop with no break on BRK
Looping_through_brk ==
    \/ called.op = "reset" /\ result.kind = "Ok"
    \/ called.op = "step" /\ result.kind = "Ok"

\* main is in its loop: reset has returned, and every step so far returned
\* Ok with a mnemonic other than BRK (an Err returns from main, a panic
\* ends the process, BRK breaks out of the loop)
Looping ==
    \/ called.op = "reset" /\ result.kind = "Ok"
    \/ called.op = "step" /\ result.kind = "Ok" /\ result.what # "BRK"

\* main, lines 112-118: one iteration of the loop
MainStep ==
    /\ Looping
    /\ steps < MaxRun
    /\ \E s \in {step(Cur)} :
          /\ cpu' = s.cpu
          /\ machine' = s.bus
          /\ result' = Outcome(s, s.val)
    /\ steps' = steps + 1
    /\ before' = cpu
    /\ called' = Call("step", 0, 0)
    /\ UNCHANGED resets

\* main, lines 120-124, reached by the break of line 115: the RAM contents
\* go to the output file, and fs::write succeeds or fails
MainDump ==
    /\ called.op = "step"
    /\ result = [kind |-> "Ok", what |-> "BRK", code |-> 0]
    /\ called' = Call("ram_contents", Segment_len(machine.ram), 0)
    /\ result' \in {[kind |-> "Ok", what |-> "", code |-> 0], Err("CouldNotWriteFile", 0)}
    /\ UNCHANGED <<cpu, machine, steps, resets, before>>

MainNext == MainReset \/ MainStep \/ MainDump

MainSpec == MainInit /\ [][MainNext]_vars

(***************************************************************************)
(* Observations used to state the properties.                              *)
(***************************************************************************)
\* The byte the default machine holds at a CPU address, looked up in the
\* segments directly: RAM pages 0x00..0x7f hold 0x0000..0x7fff, ROM pages
\* 0x80..0xff hold 0x8000..0xffff.
ByteAt(m, address) ==
    IF address < 32768
    THEN read_unchecked(m.ram, address \div 256, address % 256)
    ELSE read_unchecked(m.rom, (address - 32768) \div 256, address % 256)

\* the address of the stack cell k places below the one SP names
StackCell(stack_pointer, k) == 256 + ((stack_pointer + 256 - k) % 256)

\* the transition is a call of step that starts with opcode at PC
StepsOn(opcode) ==
    /\ called'.op = "step"
    /\ ByteAt(machine, cpu.program_counter) = opcode

\* the places of a segment that hold the same byte in both machines
SameBytes(seg1, seg2, except) ==
    \A po \in (DOMAIN seg1.bytes \cup DOMAIN seg2.bytes) \ except :
        read_unchecked(seg1, po[1], po[2]) = read_unchecked(seg2, po[1], po[2])

(***************************************************************************)
(* C1.  A step whose opcode byte b has no entry in the operations table    *)
(* returns Err(InvalidOpcode(b)): no mnemonic is returned and no handler   *)
(* runs, so A, X, Y, SP, P and the memory are as before the step.          *)
(***************************************************************************)
C1_InvalidOpcode ==
    [][LET b == ByteAt(machine, cpu.program_counter)
       IN (called'.op = "step" /\ ~OPERATIONS[b + 1].is_some)
          => /\ result' = Err("InvalidOpcode", b)
             /\ cpu'.a_register = cpu.a_register
             /\ cpu'.x_register = cpu.x_register
             /\ cpu'.y_register = cpu.y_register
             /\ cpu'.stack_pointer = cpu.stack_pointer
             /\ cpu'.processor_status_register = cpu.processor_status_register
             /\ machine' = machine]_vars

C1_Witness ==
    /\ called.op = "step"
    /\ result = Err("InvalidOpcode", 252)
    /\ before.program_counter = 32768

(***************************************************************************)
(* C2.  reset sets PC to the little-endian word stored at 0xFFFC (low) and *)
(* 0xFFFD (high) and sets P to 0x34, whatever the CPU held before.         *)
(***************************************************************************)
C2_Reset ==
    [][called'.op = "reset"
       => /\ result'.kind = "Ok"
          /\ cpu'.program_counter =
                ByteAt(machine, 65532) + 256 * ByteAt(machine, 65533)
          /\ cpu'.processor_status_register = 52]_vars

\* reset after a BRK has run: PC, SP and P were not the default ones
C2_Witness ==
    /\ called.op = "reset"
    /\ steps > 0
    /\ before.stack_pointer = 253
    /\ before.program_counter = 49152
    /\ cpu.program_counter = 4660
    /\ cpu.processor_status_register = 52

(***************************************************************************)
(* C3.  No step changes a byte of ROM or the page map: an instruction      *)
(* changes only RAM and registers.  A store aimed at a ROM address (STY,   *)
(* STA, STX with an absolute operand of 0x8000 or more) ends in the        *)
(* write-to-ROM panic, and a step that ends so leaves RAM as it was.       *)
(***************************************************************************)
C3_RomNeverWritten ==
    [][called'.op = "step"
       => /\ machine'.rom = machine.rom
          /\ machine'.page_map = machine.page_map
          /\ \A opcode \in {140, 141, 142} :
                LET target == ByteAt(machine, wrapping_add16(cpu.program_counter, 1))
                              + 256 * ByteAt(machine, wrapping_add16(cpu.program_counter, 2))
                IN  (StepsOn(opcode) /\ target >= 32768)
                    => result' = Panic("WriteROM", target)
          /\ (result'.what = "WriteROM" => SameBytes(machine'.ram, machine.ram, {}))]_vars

\* STA $8000 has been stepped and ended in the panic
C3_Witness ==
    /\ called.op = "step"
    /\ result = Panic("WriteROM", 32768)
    /\ ByteAt(machine, before.program_counter) = 141

\* pages at both ends and in the middle of each segment
SampledPages == {0, 1, 2, 64, 127, 128, 129, 192, 254, 255}

\* the machine with one page of its map made Unmapped
Unmap(m, page) == [m EXCEPT !.page_map[page] = Unmapped]

(***************************************************************************)
(* C4.  On the default machine no page is Unmapped, page p below 0x80 is   *)
(* RAM page p, page p from 0x80 on is ROM page p - 0x80, and read(addr)    *)
(* succeeds with the byte at offset addr & 0xff of that page.              *)
(***************************************************************************)
C4_ReadTotal ==
    /\ \A page \in 0..255 :
          /\ machine.page_map[page].kind # "Unmapped"
          /\ page <= 127 => machine.page_map[page] = RAM(page)
          /\ page >= 128 => machine.page_map[page] = ROM(page - 128)
    /\ \A page \in SampledPages, offset \in {0, 1, 255} :
          LET s == read(Cur, page * 256 + offset)
          IN  /\ Running(s)
              /\ s.val = IF page <= 127
                         THEN read_unchecked(machine.ram, page, offset)
                         ELSE read_unchecked(machine.rom, page - 128, offset)
              /\ s.bus = machine
    /\ called.op = "read"
       => result = [kind |-> "Ok", what |-> "",
                    code |-> ByteAt(machine, called.address)]

\* a ROM byte and a byte written to RAM before have been read back
C4_Witness ==
    /\ called = Call("read", 33023, 0)
    /\ result.code = 90
    /\ ByteAt(machine, 32767) = 255

(***************************************************************************)
(* C5.  write(addr, v) to a RAM page sets that one byte: a read of addr    *)
(* then returns v and every other byte of RAM and all of ROM are as        *)
(* before.  write to a ROM page panics and changes no byte, and so does    *)
(* write to a page the map marks Unmapped.                                 *)
(***************************************************************************)
C5_Write ==
    [][called'.op = "write"
       => LET address  == called'.address
              after    == [cpu |-> cpu', bus |-> machine', fault |-> NoFault, val |-> 0]
              unmapped == [Cur EXCEPT !.bus = Unmap(machine, address \div 256)]
              refused  == write(unmapped, address, called'.val)
          IN  /\ refused.fault = Panic("WriteUnmapped", address)
              /\ refused.bus = unmapped.bus
              /\ IF machine.page_map[address \div 256].kind = "RAM"
                 THEN /\ result'.kind = "Ok"
                      /\ read(after, address).val = called'.val
                      /\ ByteAt(machine', address) = called'.val
                      /\ SameBytes(machine'.ram, machine.ram, {split_address(address)})
                      /\ machine'.rom = machine.rom
                      /\ machine'.page_map = machine.page_map
                 ELSE /\ result' = Panic("WriteROM", address)
                      /\ machine' = machine]_vars

\* a write to ROM has panicked after a write to RAM went through
C5_Witness ==
    /\ called = Call("write", 65535, 255)
    /\ result = Panic("WriteROM", 65535)
    /\ ByteAt(machine, 511) = 1

(***************************************************************************)
(* C6.  JSR followed at once by RTS at the target leaves PC at the address *)
(* of the JSR plus 3 (mod 65536) and SP as it was before the JSR.          *)
(* In the state between the two steps `before` is the CPU as the JSR       *)
(* found it and cpu.program_counter is the target.                         *)
(***************************************************************************)
C6_JsrThenRts ==
    [][(/\ called.op = "step"
        /\ result = [kind |-> "Ok", what |-> "JSR", code |-> 0]
        /\ called'.op = "step"
        /\ result' = [kind |-> "Ok", what |-> "RTS", code |-> 0])
       => /\ cpu'.program_counter = (before.program_counter + 3) % 65536
          /\ cpu'.stack_pointer = before.stack_pointer]_vars

\* the JSR at 0xFFFD..0xFFFF has returned to 0x0000
C6_Witness ==
    /\ called.op = "step"
    /\ result.what = "RTS"
    /\ before.program_counter = 36864
    /\ ByteAt(machine, StackCell(cpu.stack_pointer, 0)) = 255
    /\ ByteAt(machine, StackCell(cpu.stack_pointer, 1)) = 255
    /\ cpu.program_counter = 0

(***************************************************************************)
(* C7.  JSR at address a pushes a + 2, the address of its last byte: the   *)
(* high byte goes to 0x0100 | SP, the low byte to the cell below, SP ends  *)
(* 2 lower (mod 256) and PC is the 16-bit operand.                         *)
(***************************************************************************)
C7_Jsr ==
    [][StepsOn(32)
       => LET a       == cpu.program_counter
              operand == ByteAt(machine, wrapping_add16(a, 1))
                         + 256 * ByteAt(machine, wrapping_add16(a, 2))
              last    == (a + 2) % 65536
          IN  /\ result' = [kind |-> "Ok", what |-> "JSR", code |-> 0]
              /\ ByteAt(machine', StackCell(cpu.stack_pointer, 0)) = last \div 256
              /\ ByteAt(machine', StackCell(cpu.stack_pointer, 1)) = last % 256
              /\ cpu'.stack_pointer = (cpu.stack_pointer + 254) % 256
              /\ cpu'.program_counter = operand]_vars

\* JSR $9000 at 0x8000 with SP = 0xFF
C7_Witness ==
    /\ called.op = "step"
    /\ result.what = "JSR"
    /\ before.program_counter = 32768
    /\ before.stack_pointer = 255
    /\ ByteAt(machine, 511) = 128
    /\ ByteAt(machine, 510) = 2
    /\ cpu.program_counter = 36864
    /\ cpu.stack_pointer = 253

(***************************************************************************)
(* C8.  BRK at address a pushes the high byte of a + 2, the low byte of    *)
(* a + 2 and then P | 0x10; SP ends 3 lower (mod 256), I is set in P and   *)
(* PC is the little-endian word at 0xFFFE/0xFFFF.                          *)
(***************************************************************************)
C8_Brk ==
    [][StepsOn(0)
       => LET a    == cpu.program_counter
              ret  == (a + 2) % 65536
              p    == cpu.processor_status_register
          IN  /\ result' = [kind |-> "Ok", what |-> "BRK", code |-> 0]
              /\ ByteAt(machine', StackCell(cpu.stack_pointer, 0)) = ret \div 256
              /\ ByteAt(machine', StackCell(cpu.stack_pointer, 1)) = ret % 256
              /\ ByteAt(machine', StackCell(cpu.stack_pointer, 2)) = BitOr(p, 16)
              /\ cpu'.stack_pointer = (cpu.stack_pointer + 253) % 256
              /\ Bit(cpu'.processor_status_register, 2) = 1
              /\ cpu'.program_counter =
                    ByteAt(machine, 65534) + 256 * ByteAt(machine, 65535)]_vars

\* BRK at 0x8050 with the vector 0xC000, after reset
C8_Witness ==
    /\ called.op = "step"
    /\ result.what = "BRK"
    /\ before.program_counter = 32848
    /\ before.processor_status_register = 52
    /\ ByteAt(machine, StackCell(before.stack_pointer, 0)) = 128
    /\ ByteAt(machine, StackCell(before.stack_pointer, 1)) = 82
    /\ ByteAt(machine, StackCell(before.stack_pointer, 2)) = 52
    /\ cpu.program_counter = 49152

(***************************************************************************)
(* C9.  After PLP or RTI bit 5 of P is 1, bit 4 (B) is 0 and the other six *)
(* bits are those of the byte pulled for the status register, which is the *)
(* byte in the stack cell above the one SP named.                          *)
(***************************************************************************)
C9_PulledStatus ==
    [][(StepsOn(40) \/ StepsOn(64))
       => LET pulled == ByteAt(machine, 256 + ((cpu.stack_pointer + 1) % 256))
              p      == cpu'.processor_status_register
          IN  /\ result'.kind = "Ok"
              /\ Bit(p, 5) = 1
              /\ Bit(p, 4) = 0
              /\ \A i \in {0, 1, 2, 3, 6, 7} : Bit(p, i) = Bit(pulled, i)]_vars

\* RTI has pulled 0xDF: B is cleared and every other bit is set
C9_Witness ==
    /\ called.op = "step"
    /\ result.what = "RTI"
    /\ before.a_register = 223
    /\ cpu.processor_status_register = 239

(***************************************************************************)
(* C10.  The status byte that PHP or BRK writes to the stack has bit 5     *)
(* set, whatever P holds, the all-zero P of a CPU not yet reset included.  *)
(***************************************************************************)
C10_PushedStatusBit5 ==
    [][/\ StepsOn(8)
          => Bit(ByteAt(machine', StackCell(cpu.stack_pointer, 0)), 5) = 1
       /\ StepsOn(0)
          => Bit(ByteAt(machine', StackCell(cpu.stack_pointer, 2)), 5) = 1]_vars

(***************************************************************************)
(* Observations of the status register and of the instruction at PC.       *)
(***************************************************************************)
\* flag bits of P: C = 0, Z = 1, I = 2, D = 3, B = 4, V = 6, N = 7
Flag(p, i) == Bit(p, i) = 1

\* the byte k places after the opcode the coming step starts on
OperandByte(k) == ByteAt(machine, wrapping_add16(cpu.program_counter, k))

\* the call that is returning is a step that returned Ok(mnemonic)
Returns(mnemonic) ==
    /\ called'.op = "step"
    /\ result' = [kind |-> "Ok", what |-> mnemonic, code |-> 0]

(***************************************************************************)
(* C11.  ADC #M with carry C in: the new A is (A + M + C) mod 256, C is    *)
(* set iff A + M + C > 255, V iff A and M have the same sign bit and the   *)
(* result the other one, Z iff the result is 0, N is bit 7 of the result.  *)
(***************************************************************************)
C11_Adc ==
    [][StepsOn(105)
       => LET a   == cpu.a_register
              m   == OperandByte(1)
              c   == cpu.processor_status_register % 2
              sum == a + m + c
              res == sum % 256
              p   == cpu'.processor_status_register
          IN  /\ Returns("ADC")
              /\ cpu'.a_register = res
              /\ Flag(p, 0) <=> sum > 255
              /\ Flag(p, 6) <=> ((a >= 128) <=> (m >= 128)) /\ ~((res >= 128) <=> (a >= 128))
              /\ Flag(p, 1) <=> res = 0
              /\ Flag(p, 7) <=> res >= 128]_vars

\* A = 0x50, C = 0, ADC #$50: A = 0xA0, C = 0, V = 1, N = 1, Z = 0
C11_Witness ==
    /\ called.op = "step"
    /\ result.what = "ADC"
    /\ before.a_register = 80
    /\ ~Flag(before.processor_status_register, 0)
    /\ ByteAt(machine, before.program_counter + 1) = 80
    /\ cpu.a_register = 160
    /\ ~Flag(cpu.processor_status_register, 0)
    /\ Flag(cpu.processor_status_register, 6)
    /\ Flag(cpu.processor_status_register, 7)
    /\ ~Flag(cpu.processor_status_register, 1)

(***************************************************************************)
(* C12.  SBC #M leaves the same A, C, V, Z and N as ADC #(~M & 0xFF) run   *)
(* from the same state: A is (A + (255 - M) + C) mod 256, and C is set     *)
(* after it iff no borrow occurred, A >= M + (1 - C).                      *)
(***************************************************************************)
C12_SbcIsAdcOfComplement ==
    [][StepsOn(233)
       => LET a   == cpu.a_register
              m   == OperandByte(1)
              c   == cpu.processor_status_register % 2
              adc == op_adc(Cur, ResolvedOperand(Value(255 - m), FALSE)).cpu
              p   == cpu'.processor_status_register
          IN  /\ Returns("SBC")
              /\ cpu'.a_register = adc.a_register
              /\ cpu'.a_register = (a + (255 - m) + c) % 256
              /\ \A i \in {0, 1, 6, 7} :
                    Flag(p, i) <=> Flag(adc.processor_status_register, i)
              /\ Flag(p, 0) <=> a >= m + (1 - c)]_vars

\* 0x00 - 0x01 with C set: a borrow, A = 0xFF and C clear
C12_Witness ==
    /\ called.op = "step"
    /\ result.what = "SBC"
    /\ before.a_register = 0
    /\ Flag(before.processor_status_register, 0)
    /\ ByteAt(machine, before.program_counter + 1) = 1
    /\ cpu.a_register = 255
    /\ ~Flag(cpu.processor_status_register, 0)

(***************************************************************************)
(* C13.  PHA followed at once by PLA leaves A and SP as they were before   *)
(* the PHA and sets Z iff A is 0 and N to bit 7 of A; the same for PHX and *)
(* PLX with X and for PHY and PLY with Y.  In the state between the two    *)
(* steps `before` is the CPU as the push found it.                         *)
(***************************************************************************)
C13_PushThenPull ==
    [][\A pair \in {<<"PHA", "PLA", "a_register">>, <<"PHX", "PLX", "x_register">>,
                    <<"PHY", "PLY", "y_register">>} :
          (/\ called.op = "step"
           /\ result = [kind |-> "Ok", what |-> pair[1], code |-> 0]
           /\ Returns(pair[2]))
          => /\ cpu'[pair[3]] = before[pair[3]]
             /\ cpu'.stack_pointer = before.stack_pointer
             /\ Flag(cpu'.processor_status_register, 1) <=> before[pair[3]] = 0
             /\ Flag(cpu'.processor_status_register, 7) <=> before[pair[3]] >= 128]_vars

\* PHX with X = 0x80 and SP = 0x00 (the push wraps SP to 0xFF, the pull back
\* to 0x00), PLX sets N that the LDY #0 in between had cleared
C13_Witness ==
    /\ called.op = "step"
    /\ result.what = "PLX"
    /\ cpu.x_register = 128
    /\ cpu.stack_pointer = 0
    /\ before.stack_pointer = 255
    /\ ByteAt(machine, 256) = 128
    /\ Flag(before.processor_status_register, 1)
    /\ Flag(cpu.processor_status_register, 7)

(***************************************************************************)
(* Runs of INC.  The three programs of this kind load v (the byte at       *)
(* 0x8001), store it in the operand (A itself, 0x0010 or 0x0200) and then  *)
(* hold 256 copies of one INC instruction from the address `first` on.     *)
(***************************************************************************)
IncRuns ==
    {[opcode |-> 26,  len |-> 1, first |-> 32770, prefix |-> 1, operand |-> "A"],
     [opcode |-> 230, len |-> 2, first |-> 32772, prefix |-> 2, operand |-> "0x0010"],
     [opcode |-> 238, len |-> 3, first |-> 32773, prefix |-> 2, operand |-> "0x0200"]}

\* the n-th INC of the run has just returned, and the steps before it were
\* the prefix and the n - 1 INCs before it
AfterIncs(run, n) ==
    /\ called.op = "step"
    /\ result = [kind |-> "Ok", what |-> "INC", code |-> 0]
    /\ ByteAt(machine, run.first) = run.opcode
    /\ steps = run.prefix + n
    /\ cpu.program_counter = run.first + n * run.len

IncOperand(run) ==
    CASE run.operand = "A"      -> cpu.a_register
      [] run.operand = "0x0010" -> ByteAt(machine, 16)
      [] run.operand = "0x0200" -> ByteAt(machine, 512)

(***************************************************************************)
(* C14.  After 256 INCs in a row on an operand that held v (A or a RAM     *)
(* byte) the operand holds v again, and Z and N are those of v: Z is set   *)
(* iff v is 0 and N is bit 7 of v.  (Z = 1 and N = 0 only when v is 0.)    *)
(***************************************************************************)
C14_Inc256 ==
    \A run \in IncRuns :
        AfterIncs(run, 256)
        => LET v == ByteAt(machine, 32769)
           IN  /\ IncOperand(run) = v
               /\ Flag(cpu.processor_status_register, 1) <=> v = 0
               /\ Flag(cpu.processor_status_register, 7) <=> v >= 128

\* the byte at 0x0010, loaded with 0x80, after its 256th INC: N is set
C14_Witness ==
    /\ \E run \in IncRuns : run.operand = "0x0010" /\ AfterIncs(run, 256)
    /\ ByteAt(machine, 32769) = 128
    /\ ByteAt(machine, 16) = 128
    /\ Flag(cpu.processor_status_register, 7)
    /\ ~Flag(cpu.processor_status_register, 1)

\* C14 as stated: after the 256th INC the operand holds v again and Z = 1,
\* N = 0, for every v
C14_AsStated ==
    \A run \in IncRuns :
        AfterIncs(run, 256)
        => /\ IncOperand(run) = ByteAt(machine, 32769)
           /\ Flag(cpu.processor_status_register, 1)
           /\ ~Flag(cpu.processor_status_register, 7)

(***************************************************************************)
(* C15.  BIT #v (opcode 0x89) changes only Z, which is set iff A & v is 0: *)
(* N, V, every other bit of P, A and the other registers are unchanged.    *)
(* BIT on a memory byte M (zp, zp,X, abs, abs,X) sets Z iff A & M is 0 and *)
(* also sets N to bit 7 and V to bit 6 of M.                               *)
(***************************************************************************)
C15_Bit ==
    [][LET a    == cpu.a_register
           x    == cpu.x_register
           p    == cpu.processor_status_register
           q    == cpu'.processor_status_register
           abs  == OperandByte(1) + 256 * OperandByte(2)
           M    == CASE StepsOn(36) -> ByteAt(machine, OperandByte(1))
                     [] StepsOn(52) -> ByteAt(machine, (OperandByte(1) + x) % 256)
                     [] StepsOn(44) -> ByteAt(machine, abs)
                     [] StepsOn(60) -> ByteAt(machine, (abs + x) % 65536)
       IN  /\ StepsOn(137)
              => /\ Returns("BIT")
                 /\ Flag(q, 1) <=> BitAnd(a, OperandByte(1)) = 0
                 /\ \A i \in {0, 2, 3, 4, 5, 6, 7} : Bit(q, i) = Bit(p, i)
                 /\ cpu' = [cpu EXCEPT !.processor_status_register = q,
                                       !.program_counter = wrapping_add16(@, 2)]
                 /\ machine' = machine
           /\ (StepsOn(36) \/ StepsOn(52) \/ StepsOn(44) \/ StepsOn(60))
              => /\ Returns("BIT")
                 /\ Flag(q, 1) <=> BitAnd(a, M) = 0
                 /\ Flag(q, 7) <=> M >= 128
                 /\ Flag(q, 6) <=> Bit(M, 6) = 1
                 /\ cpu'.a_register = a]_vars

\* BIT #$C0 with A = 0 and N, V clear: Z is set, N and V stay clear
C15_Witness ==
    /\ called.op = "step"
    /\ result.what = "BIT"
    /\ ByteAt(machine, before.program_counter) = 137
    /\ ByteAt(machine, before.program_counter + 1) = 192
    /\ before.a_register = 0
    /\ ~Flag(before.processor_status_register, 1)
    /\ Flag(cpu.processor_status_register, 1)
    /\ ~Flag(cpu.processor_status_register, 6)
    /\ ~Flag(cpu.processor_status_register, 7)

(***************************************************************************)
(* C16.  A branch with its opcode at address a and offset byte o, read as  *)
(* a signed number, ends with PC = (a + 2 + o) mod 65536 when its          *)
(* condition holds and with PC = (a + 2) mod 65536 when not.  BCC branches *)
(* on C = 0, BCS on C = 1, BEQ on Z = 1, BNE on Z = 0, BMI on N = 1, BPL   *)
(* on N = 0, BVC on V = 0, BVS on V = 1, BRA always.  No other register,   *)
(* no flag and no memory byte changes.                                     *)
(***************************************************************************)
C16_Branch ==
    [][\A b \in {<<144, "BCC", 0, FALSE>>, <<176, "BCS", 0, TRUE>>,
                 <<240, "BEQ", 1, TRUE>>,  <<208, "BNE", 1, FALSE>>,
                 <<48,  "BMI", 7, TRUE>>,  <<16,  "BPL", 7, FALSE>>,
                 <<80,  "BVC", 6, FALSE>>, <<112, "BVS", 6, TRUE>>,
                 <<128, "BRA", 0, TRUE>>} :
          StepsOn(b[1])
          => LET a     == cpu.program_counter
                 o     == IF OperandByte(1) >= 128
                          THEN OperandByte(1) - 256 ELSE OperandByte(1)
                 taken == \/ b[2] = "BRA"
                          \/ Flag(cpu.processor_status_register, b[3]) = b[4]
                 to    == IF taken THEN (a + 2 + o + 65536) % 65536
                          ELSE (a + 2) % 65536
             IN  /\ Returns(b[2])
                 /\ cpu' = [cpu EXCEPT !.program_counter = to]
                 /\ machine' = machine]_vars

\* BEQ +127 at 0xFFF0 with Z set: taken, PC wraps to 0x0071
C16_Witness ==
    /\ called.op = "step"
    /\ result.what = "BEQ"
    /\ before.program_counter = 65520
    /\ ByteAt(machine, 65521) = 127
    /\ Flag(before.processor_status_register, 1)
    /\ cpu.program_counter = 113

(***************************************************************************)
(* C17.  Zero-page address arithmetic wraps within page zero.  With the    *)
(* operand byte zp, ZeroPage,X resolves to Address((zp + X) mod 256) and   *)
(* ZeroPage,Y to Address((zp + Y) mod 256); (zp,X), (zp) and (zp),Y read   *)
(* the low byte of their pointer at p and the high byte at (p + 1) mod     *)
(* 256, where p is (zp + X) mod 256 for (zp,X) and zp for the other two.   *)
(* A load through such a mode returns the byte at the resolved address.    *)
(***************************************************************************)
C17_ZeroPageWrap ==
    [][LET x      == cpu.x_register
           y      == cpu.y_register
           zp     == OperandByte(1)
           Ptr(p) == ByteAt(machine, p) + 256 * ByteAt(machine, (p + 1) % 256)
           o      == operation_at(ByteAt(machine, cpu.program_counter))
           mode   == IF o.is_some THEN o.addressing_mode ELSE "None"
           target == CASE mode = "ZeroPageIndexedX"         -> (zp + x) % 256
                       [] mode = "ZeroPageIndexedY"         -> (zp + y) % 256
                       [] mode = "ZeroPageIndexedIndirect"  -> Ptr((zp + x) % 256)
                       [] mode = "ZeroPageIndirect"         -> Ptr(zp)
                       [] mode = "ZeroPageIndirectIndexedY" -> (Ptr(zp) + y) % 65536
       IN  /\ called'.op = "step"
           /\ mode \in {"ZeroPageIndexedX", "ZeroPageIndexedY", "ZeroPageIndexedIndirect",
                        "ZeroPageIndirect", "ZeroPageIndirectIndexedY"}
           => /\ resolve_operand(fetch_u8(Cur), mode).val.operand = Address(target)
              /\ (StepsOn(181) \/ StepsOn(161) \/ StepsOn(178) \/ StepsOn(177))
                 => Returns("LDA") /\ cpu'.a_register = ByteAt(machine, target)
              /\ StepsOn(182)
                 => Returns("LDX") /\ cpu'.x_register = ByteAt(machine, target)]_vars

\* LDA ($81,X) with X = 0xFF and the bytes 0x34, 0x12 at 0x0080, 0x0081:
\* the pointer is read at 0x0080 and the load is from 0x1234
C17_Witness ==
    /\ called.op = "step"
    /\ result.what = "LDA"
    /\ ByteAt(machine, before.program_counter) = 161
    /\ ByteAt(machine, wrapping_add16(before.program_counter, 1)) = 129
    /\ before.x_register = 255
    /\ ByteAt(machine, 128) = 52 /\ ByteAt(machine, 129) = 18
    /\ resolve_operand(fetch_u8([Cur EXCEPT !.cpu = before]),
                       "ZeroPageIndexedIndirect").val.operand = Address(4660)
    /\ cpu.a_register = ByteAt(machine, 4660)

(***************************************************************************)
(* C18.  CMP, CPX and CPY compare their register r (A, X, Y) with the      *)
(* operand M: afterwards C = 1 iff r >= M (unsigned), Z = 1 iff r = M, and *)
(* N is bit 7 of (r - M) mod 256.  The compared register, the other        *)
(* registers, V and the other flags, and memory are unchanged.             *)
(***************************************************************************)
C18_Compare ==
    [][\A c \in {<<"CMP", cpu.a_register, 201, 197, 205>>,
                 <<"CPX", cpu.x_register, 224, 228, 236>>,
                 <<"CPY", cpu.y_register, 192, 196, 204>>} :
          StepsOn(c[3]) \/ StepsOn(c[4]) \/ StepsOn(c[5])
          => LET r   == c[2]
                 abs == OperandByte(1) + 256 * OperandByte(2)
                 M   == CASE StepsOn(c[3]) -> OperandByte(1)
                          [] StepsOn(c[4]) -> ByteAt(machine, OperandByte(1))
                          [] StepsOn(c[5]) -> ByteAt(machine, abs)
                 len == IF StepsOn(c[5]) THEN 3 ELSE 2
                 p   == cpu.processor_status_register
                 q   == cpu'.processor_status_register
             IN  /\ Returns(c[1])
                 /\ Flag(q, 0) <=> r >= M
                 /\ Flag(q, 1) <=> r = M
                 /\ Flag(q, 7) <=> ((r - M + 256) % 256) >= 128
                 /\ \A i \in {2, 3, 4, 5, 6} : Bit(q, i) = Bit(p, i)
                 /\ cpu' = [cpu EXCEPT !.processor_status_register = q,
                                       !.program_counter = wrapping_add16(@, len)]
                 /\ machine' = machine]_vars

\* CPX #$80 with X = 0x7F and V set: C = 0, Z = 0, N = 1 (0x7F - 0x80 =
\* 0xFF), V still set, X still 0x7F
C18_Witness ==
    /\ called.op = "step"
    /\ result.what = "CPX"
    /\ ByteAt(machine, before.program_counter) = 224
    /\ ByteAt(machine, wrapping_add16(before.program_counter, 1)) = 128
    /\ before.x_register = 127 /\ cpu.x_register = 127
    /\ Flag(before.processor_status_register, 6)
    /\ Flag(cpu.processor_status_register, 6)
    /\ ~Flag(cpu.processor_status_register, 0)
    /\ ~Flag(cpu.processor_status_register, 1)
    /\ Flag(cpu.processor_status_register, 7)

(***************************************************************************)
(* C19.  CLC, CLD, CLI, CLV clear and SEC, SED, SEI set their own flag     *)
(* bit of P (C = bit 0, I = bit 2, D = bit 3, V = bit 6) and change        *)
(* nothing else but PC: no other flag, no register, no memory byte.  They  *)
(* are idempotent: a CLC stepped right after a CLC finds C = 0 and leaves  *)
(* C = 0, a SEC stepped right after a SEC finds C = 1 and leaves C = 1.    *)
(***************************************************************************)
C19_FlagOps ==
    [][LET p == cpu.processor_status_register
           q == cpu'.processor_status_register
       IN  /\ \A f \in {<<24,  "CLC", 0, 0>>, <<56,  "SEC", 0, 1>>,
                        <<88,  "CLI", 2, 0>>, <<120, "SEI", 2, 1>>,
                        <<216, "CLD", 3, 0>>, <<248, "SED", 3, 1>>,
                        <<184, "CLV", 6, 0>>} :
                 StepsOn(f[1])
                 => /\ Returns(f[2])
                    /\ cpu' = [cpu EXCEPT
                                 !.processor_status_register =
                                     p - Bit(p, f[3]) * (2 ^ f[3]) + f[4] * (2 ^ f[3]),
                                 !.program_counter = wrapping_add16(@, 1)]
                    /\ machine' = machine
           /\ StepsOn(24) /\ called.op = "step" /\ result.what = "CLC"
              => ~Flag(p, 0) /\ ~Flag(q, 0)
           /\ StepsOn(56) /\ called.op = "step" /\ result.what = "SEC"
              => Flag(p, 0) /\ Flag(q, 0)]_vars

\* the second of two CLC, the first of which found C set with every other
\* flag set too: C is clear and P is 0xEE (B is never set in the register)
C19_Witness ==
    /\ called.op = "step"
    /\ result.what = "CLC"
    /\ ByteAt(machine, before.program_counter) = 24
    /\ ByteAt(machine, wrapping_add16(before.program_counter, 65535)) = 24
    /\ before.processor_status_register = 238
    /\ cpu.processor_status_register = 238
    /\ steps = 5

(***************************************************************************)
(* C20.  A step on opcode 0xCB (WAI) or 0xDB (STP) never completes as an   *)
(* instruction: its outcome is the failure of unimplemented!(), never Ok   *)
(* with a mnemonic, and the driver makes no further step after it.         *)
(***************************************************************************)
C20_WaiStp ==
    [][/\ StepsOn(203) \/ StepsOn(219)
          => /\ result' = Panic("Unimplemented", 0)
             /\ result'.kind # "Ok"
       /\ called.op = "step" /\ ByteAt(machine, before.program_counter) \in {203, 219}
          => called'.op # "step" /\ steps' = steps]_vars

\* LDA #$80; STP; LDX #1: the second step fails and LDX is never stepped
C20_Witness ==
    /\ called.op = "step"
    /\ steps = 2
    /\ ByteAt(machine, before.program_counter) = 219
    /\ before.a_register = 128
    /\ result = Panic("Unimplemented", 0)
    /\ cpu.x_register = 0
    /\ ~ENABLED MainNext

(***************************************************************************)
(* C21.  RAMSegment.load with a byte sequence longer than the capacity of  *)
(* the segment does not fail: it returns normally, the first `capacity`    *)
(* bytes are in the segment (byte i at page i >> 8, offset i & 0xFF) and   *)
(* the rest is ignored.                                                    *)
(***************************************************************************)
C21_LoadClamps ==
    [][called'.op = "load_ram" /\ called'.address > Segment_len(machine.ram)
       => LET bytes == RamLoads[called'.val]
          IN  /\ result'.kind = "Ok"
              /\ \A i \in {0, 1, 255, 256, 32766, 32767} :
                    read_unchecked(machine'.ram, i \div 256, i % 256)
                       = IF i \in DOMAIN bytes.bytes THEN bytes.bytes[i] ELSE 0
              /\ machine'.rom = machine.rom
              /\ machine'.page_map = machine.page_map]_vars

(***************************************************************************)
(* C22.  ROMSegment.load with more bytes than the capacity of the segment  *)
(* fails and leaves every byte of the segment as it was; with at most      *)
(* capacity bytes it succeeds.  Building the default machine from an image *)
(* of more than 32 KiB yields no machine: the constructor panics and       *)
(* nothing can be called afterwards.                                       *)
(***************************************************************************)
C22_RomLoad ==
    called.op = "new"
    => LET image  == CHOOSE i \in LoadImages : i.len = called.address
           used   == write_unchecked(Segment_new(128), 127, 255, 99)
           fresh  == ROMSegment_load(Segment_new(128), image)
           reload == ROMSegment_load(used, image)
       IN  IF image.len > 32768
           THEN /\ ~fresh.ok /\ fresh.seg = Segment_new(128)
                /\ ~reload.ok /\ reload.seg = used
                /\ result.kind = "Panic"
                /\ machine.rom = Segment_new(128)
                /\ \A page \in 0..255 : machine.page_map[page] = Unmapped
                /\ ~ENABLED NextLoad
           ELSE /\ fresh.ok
                /\ reload.ok
                /\ result = NoFault
                /\ machine.rom = fresh.seg
                /\ machine.page_map = default_page_map

\* an image of 32769 bytes: the constructor has panicked, the ROM segment
\* it had made holds nothing
C22_Witness ==
    /\ called = Call("new", 32769, 0)
    /\ result.kind = "Panic"
    /\ machine.rom = Segment_new(128)
    /\ ~ENABLED NextLoad

(***************************************************************************)
(* C23.  Right after the default machine is built from an image of         *)
(* n <= 32768 bytes, read(0x8000 + i) returns byte i of the image for      *)
(* every i < n, read returns 0 at every ROM address from 0x8000 + n to     *)
(* 0xFFFF, and read returns 0 at every RAM address 0x0000..0x7FFF.         *)
(***************************************************************************)
C23_FreshMachine ==
    called.op = "new" /\ result = NoFault
    => LET image == CHOOSE i \in LoadImages : i.len = called.address
           n     == image.len
       IN  /\ n <= 32768
           /\ \A address \in 0..65535 :
                 LET r == read(Cur, address)
                     i == address - 32768
                 IN  /\ Running(r)
                     /\ r.bus = machine
                     /\ r.val = IF address >= 32768 /\ i < n /\ i \in DOMAIN image.bytes
                                THEN image.bytes[i] ELSE 0

\* the image 5A 07 09: 0x8000 reads 0x5A, 0x8002 reads 0x09, the ROM byte
\* after the image and the first RAM byte read 0
C23_Witness ==
    /\ called = Call("new", 3, 0)
    /\ result = NoFault
    /\ read(Cur, 32768).val = 90
    /\ read(Cur, 32770).val = 9
    /\ read(Cur, 32771).val = 0
    /\ read(Cur, 0).val = 0

(***************************************************************************)
(* C24.  After reset the driver calls step again and again and stops at    *)
(* the first step that returns BRK: no step follows it.  The RAM dump is   *)
(* written only after that BRK step, of the machine as that step left it.  *)
(* When a step ends in an error first, the driver ends there: no further   *)
(* step and no dump.                                                       *)
(***************************************************************************)
C24_Driver ==
    [][/\ called'.op = "step"
          => /\ resets = 1
             /\ \/ called.op = "reset"
                \/ called.op = "step" /\ result.kind = "Ok" /\ result.what # "BRK"
       /\ called'.op = "ram_contents"
          => /\ called.op = "step"
             /\ result = [kind |-> "Ok", what |-> "BRK", code |-> 0]
             /\ machine' = machine
             /\ called'.address = 32768
       /\ called.op = "step" /\ result.kind \in {"Err", "Panic"}
          => FALSE
       /\ called.op = "step" /\ result.what = "BRK"
          => called'.op = "ram_contents"
       /\ called.op = "ram_contents"
          => FALSE]_vars

\* LDA #$FF; STA $0200, then BRK as the first step to return BRK: the dump
\* follows it, with the stored byte in the RAM
C24_Witness ==
    /\ called.op = "ram_contents"
    /\ result.kind = "Ok"
    /\ ByteAt(machine, 512) = 255
    /\ ByteAt(machine, before.program_counter) = 0
    /\ steps = 3
    /\ ~ENABLED MainNext

(***************************************************************************)
(* C25.  For a ROM file shorter than 32 KiB the driver reports the file as *)
(* malformed (the MalformedRomFile error) and ends without constructing a  *)
(* machine, resetting the CPU or executing a step.                         *)
(***************************************************************************)
C25_ShortFileMalformed ==
    called.op = "new" /\ called.address < 32768
    => /\ result = Err("MalformedRomFile", 0)
       /\ resets = 0 /\ steps = 0
       /\ ~ENABLED MainNext

(***************************************************************************)
(* C26.  PHP stores P | 0x30 in the stack cell SP names, lowers SP by one  *)
(* and leaves P as it is.  A PLP stepped right after a PHP brings SP back  *)
(* to what it was before the PHP and leaves C, Z, I, D, V, N as they were  *)
(* before the PHP, with bit 5 set and bit 4 (B) clear.                     *)
(***************************************************************************)
C26_PhpThenPlp ==
    [][LET p  == cpu.processor_status_register
           sp == cpu.stack_pointer
       IN  /\ StepsOn(8)
              => /\ Returns("PHP")
                 /\ ByteAt(machine', 256 + sp)
                       = p + (1 - Bit(p, 4)) * 16 + (1 - Bit(p, 5)) * 32
                 /\ cpu' = [cpu EXCEPT !.stack_pointer = (sp + 255) % 256,
                                       !.program_counter = wrapping_add16(@, 1)]
                 /\ SameBytes(machine'.ram, machine.ram, {<<1, sp>>})
                 /\ machine'.rom = machine.rom
           /\ (/\ called.op = "step"
               /\ result = [kind |-> "Ok", what |-> "PHP", code |-> 0]
               /\ StepsOn(40))
              => /\ Returns("PLP")
                 /\ cpu'.stack_pointer = before.stack_pointer
                 /\ \A i \in {0, 1, 2, 3, 6, 7} :
                       Bit(cpu'.processor_status_register, i)
                          = Bit(before.processor_status_register, i)
                 /\ Bit(cpu'.processor_status_register, 5) = 1
                 /\ Bit(cpu'.processor_status_register, 4) = 0
                 /\ cpu' = [cpu EXCEPT
                              !.stack_pointer = before.stack_pointer,
                              !.processor_status_register = cpu'.processor_status_register,
                              !.program_counter = wrapping_add16(@, 1)]
                 /\ machine' = machine]_vars

\* PHP with P = 0xE3 and SP = 0x00, then PLP: 0xF3 is in 0x0100, SP is 0x00
\* again and P is 0xE3
C26_Witness ==
    /\ called.op = "step"
    /\ result.what = "PLP"
    /\ ByteAt(machine, wrapping_add16(before.program_counter, 65535)) = 8
    /\ before.processor_status_register = 227
    /\ before.stack_pointer = 255
    /\ cpu.stack_pointer = 0
    /\ ByteAt(machine, 256) = 243
    /\ cpu.processor_status_register = 227

(***************************************************************************)
(* C27.  TRB and TSB with A and the memory byte M: Z is set iff            *)
(* (A & M) = 0, with M the byte before the write; the byte becomes         *)
(* M & ~A (TRB) or M | A (TSB); A, the other registers and the flags other *)
(* than Z are unchanged, and so is every other byte of memory.             *)
(***************************************************************************)
C27_TrbTsb ==
    [][\A t \in {<<"TRB", 20, 28>>, <<"TSB", 4, 12>>} :
          StepsOn(t[2]) \/ StepsOn(t[3])
          => LET a       == cpu.a_register
                 p       == cpu.processor_status_register
                 address == IF StepsOn(t[2]) THEN OperandByte(1)
                            ELSE OperandByte(1) + 256 * OperandByte(2)
                 len     == IF StepsOn(t[2]) THEN 2 ELSE 3
                 M       == ByteAt(machine, address)
                 W       == ByteAt(machine', address)
                 disjoint == \A i \in 0..7 : Bit(a, i) = 0 \/ Bit(M, i) = 0
             IN  /\ Returns(t[1])
                 /\ \A i \in 0..7 :
                       Bit(W, i) = IF t[1] = "TRB"
                                   THEN (IF Bit(a, i) = 1 THEN 0 ELSE Bit(M, i))
                                   ELSE (IF Bit(a, i) = 1 THEN 1 ELSE Bit(M, i))
                 /\ cpu' = [cpu EXCEPT
                              !.processor_status_register =
                                  p - 2 * Bit(p, 1) + (IF disjoint THEN 2 ELSE 0),
                              !.program_counter = wrapping_add16(@, len)]
                 /\ SameBytes(machine'.ram, machine.ram, {split_address(address)})
                 /\ machine'.rom = machine.rom]_vars

\* TRB $10 with A = 0x55 and 0xFF at 0x0010, Z set beforehand: the byte
\* becomes 0xAA and Z is cleared
C27_Witness ==
    /\ called.op = "step"
    /\ result.what = "TRB"
    /\ ByteAt(machine, before.program_counter) = 20
    /\ before.a_register = 85
    /\ Flag(before.processor_status_register, 1)
    /\ ByteAt(machine, 16) = 170
    /\ ~Flag(cpu.processor_status_register, 1)
    /\ cpu.a_register = 85

(***************************************************************************)
(* C28.  BBRn and BBSn (n = 0..7) with the opcode at address a, the        *)
(* zero-page operand zp and the offset byte o read as a signed number:     *)
(* the byte at zero-page address zp is tested; the branch is taken, with   *)
(* PC = (a + 3 + o) mod 65536, iff its bit n is 0 (BBRn) or 1 (BBSn), and  *)
(* otherwise PC = a + 3.  n is the high nibble of the opcode modulo 8      *)
(* (BBRn is 0x0F + 0x10 n, BBSn is 0x8F + 0x10 n).  No flag, no other      *)
(* register and no memory byte changes.                                    *)
(***************************************************************************)
C28_BranchOnBit ==
    [][\A opcode \in {15 + 16 * k : k \in 0..15} :
          StepsOn(opcode)
          => LET n     == (opcode \div 16) % 8
                 set   == opcode >= 128
                 name  == IF set
                          THEN <<"BBSN(0)", "BBSN(1)", "BBSN(2)", "BBSN(3)",
                                 "BBSN(4)", "BBSN(5)", "BBSN(6)", "BBSN(7)">>[n + 1]
                          ELSE <<"BBRN(0)", "BBRN(1)", "BBRN(2)", "BBRN(3)",
                                 "BBRN(4)", "BBRN(5)", "BBRN(6)", "BBRN(7)">>[n + 1]
                 a     == cpu.program_counter
                 M     == ByteAt(machine, OperandByte(1))
                 o     == IF OperandByte(2) >= 128
                          THEN OperandByte(2) - 256 ELSE OperandByte(2)
                 taken == Bit(M, n) = (IF set THEN 1 ELSE 0)
                 to    == IF taken THEN (a + 3 + o + 65536) % 65536
                          ELSE (a + 3) % 65536
             IN  /\ Returns(name)
                 /\ cpu' = [cpu EXCEPT !.program_counter = to]
                 /\ machine' = machine]_vars

\* BBS7 $10, +127 at 0xFFF0 with 0x80 at 0x0010: taken, PC wraps to 0x0072
C28_Witness ==
    /\ called.op = "step"
    /\ result.what = "BBSN(7)"
    /\ before.program_counter = 65520
    /\ ByteAt(machine, 65521) = 16
    /\ ByteAt(machine, 65522) = 127
    /\ ByteAt(machine, 16) = 128
    /\ cpu.program_counter = 114

(***************************************************************************)
(* C29.  STA, STX, STY, STZ and TXS leave every bit of P as it is,         *)
(* whatever the registers and the operand.  TAX, TAY, TSX, TXA and TYA     *)
(* copy their source register to their destination and set Z iff the       *)
(* value is 0 and N to its bit 7; the other flags, the other registers and *)
(* the memory are unchanged.  TXS copies X to SP.                          *)
(***************************************************************************)
C29_StoresAndTransfers ==
    [][LET o  == operation_at(ByteAt(machine, cpu.program_counter))
           mn == IF o.is_some THEN o.mnemomic ELSE ""
           p  == cpu.processor_status_register
           q  == cpu'.processor_status_register
       IN  /\ called'.op = "step" /\ mn \in {"STA", "STX", "STY", "STZ", "TXS"}
              => /\ q = p
                 /\ cpu'.a_register = cpu.a_register
                 /\ cpu'.x_register = cpu.x_register
                 /\ cpu'.y_register = cpu.y_register
                 /\ mn # "TXS" => cpu'.stack_pointer = cpu.stack_pointer
           /\ StepsOn(154)
              => /\ Returns("TXS")
                 /\ cpu' = [cpu EXCEPT !.stack_pointer = cpu.x_register,
                                       !.program_counter = wrapping_add16(@, 1)]
                 /\ machine' = machine
           /\ \A t \in {<<170, "TAX", "a_register", "x_register">>,
                        <<168, "TAY", "a_register", "y_register">>,
                        <<186, "TSX", "stack_pointer", "x_register">>,
                        <<138, "TXA", "x_register", "a_register">>,
                        <<152, "TYA", "y_register", "a_register">>} :
                 StepsOn(t[1])
                 => LET v == cpu[t[3]]
                    IN  /\ Returns(t[2])
                        /\ Flag(q, 1) <=> v = 0
                        /\ Flag(q, 7) <=> v >= 128
                        /\ \A i \in {0, 2, 3, 4, 5, 6} : Bit(q, i) = Bit(p, i)
                        /\ cpu' = [cpu EXCEPT
                                     ![t[4]] = v,
                                     !.processor_status_register = q,
                                     !.program_counter = wrapping_add16(@, 1)]
                        /\ machine' = machine]_vars

\* TXS with X = 0 and Z clear: SP is 0 and Z is still clear
C29_Witness ==
    /\ called.op = "step"
    /\ result.what = "TXS"
    /\ before.x_register = 0
    /\ before.stack_pointer = 127
    /\ cpu.stack_pointer = 0
    /\ before.processor_status_register = 32
    /\ cpu.processor_status_register = 32

(***************************************************************************)
(* C30.  The decimal flag D has no influence on ADC and SBC.  The step     *)
(* taken from the state that differs from the present one only in the D    *)
(* bit of P ends with the same A, the same C, V, Z, N, the same other      *)
(* registers and the same memory, and in each of the two runs D keeps the  *)
(* value it had.                                                           *)
(***************************************************************************)
C30_DecimalIgnored ==
    [][LET o    == operation_at(ByteAt(machine, cpu.program_counter))
           mn   == IF o.is_some THEN o.mnemomic ELSE ""
           p    == cpu.processor_status_register
           q    == cpu'.processor_status_register
           flip == p + 8 - 16 * Bit(p, 3)
           twin == step([Cur EXCEPT !.cpu.processor_status_register = flip])
           tq   == twin.cpu.processor_status_register
       IN  called'.op = "step" /\ mn \in {"ADC", "SBC"}
           => /\ Returns(mn)
              /\ Running(twin) /\ twin.val = mn
              /\ Bit(q, 3) = Bit(p, 3)
              /\ Bit(tq, 3) = Bit(flip, 3)
              /\ Bit(tq, 3) # Bit(q, 3)
              /\ \A i \in {0, 1, 2, 4, 5, 6, 7} : Bit(tq, i) = Bit(q, i)
              /\ twin.cpu = [cpu' EXCEPT !.processor_status_register = tq]
              /\ twin.bus = machine']_vars

\* ADC #$80 with A = 0x40, C and D set: A = 0xC1 with C clear, the binary
\* sum (the decimal sum of 40, 80 and 1 would be 0x21 with C set), and D
\* still set
C30_Witness ==
    /\ called.op = "step"
    /\ result.what = "ADC"
    /\ before.a_register = 64
    /\ ByteAt(machine, wrapping_add16(before.program_counter, 1)) = 128
    /\ Flag(before.processor_status_register, 3)
    /\ Flag(before.processor_status_register, 0)
    /\ cpu.a_register = 193
    /\ ~Flag(cpu.processor_status_register, 0)
    /\ Flag(cpu.processor_status_register, 3)

(***************************************************************************)
(* C31.  reset changes only PC and P: A, X, Y, SP and every byte of RAM    *)
(* and ROM are after reset what they were before it.                       *)
(***************************************************************************)
C31_ResetFrame ==
    [][called'.op = "reset"
       => /\ cpu' = [cpu EXCEPT
                       !.program_counter = cpu'.program_counter,
                       !.processor_status_register = cpu'.processor_status_register]
          /\ machine' = machine]_vars

\* reset after BRK; LDX #$80; TXS; JSR: X and SP are as the program left
\* them (0x80, 0x7E) and the return address is still on the stack
C31_Witness ==
    /\ called.op = "reset"
    /\ steps = 4
    /\ before.x_register = 128 /\ cpu.x_register = 128
    /\ before.stack_pointer = 126 /\ cpu.stack_pointer = 126
    /\ ByteAt(machine, 384) = 128
    /\ cpu.program_counter = 32768
    /\ before.program_counter # 32768

\* the opcode bytes that do not decode, as the comment on line 56 groups them
InvalidOpcodes ==
    {b \in 0..255 : b % 16 = 3}
    \cup ({b \in 0..255 : b % 16 = 11} \ {203, 219})
    \cup {2, 34, 66, 98, 130, 194, 226}
    \cup {68, 84, 212, 244}
    \cup {92, 220, 252}

\* the slots of the table that hold None
EmptySlots == {b \in 0..255 : ~operation_at(b).is_some}

AddressingModes == {operation_at(b).addressing_mode : b \in 0..255 \ EmptySlots}

\* the handlers that assign program_counter: the branches, BBRn/BBSn, BRK,
\* JMP, JSR, RTI and RTS
AssignsPC ==
    {operation_at(b).exec :
        b \in {c \in 0..255 \ EmptySlots :
                 operation_at(c).addressing_mode
                    \in {"ProgramCounterRelative", "ZeroPageRelative"}}}
    \cup {"op_brk", "op_jmp", "op_jsr", "op_rti", "op_rts"}

(***************************************************************************)
(* C33.  For every addressing mode resolve_operand advances PC by exactly  *)
(* num_operand_bytes of the mode, so after a step of any instruction whose *)
(* handler does not assign PC, PC = (old PC + 1 + count) mod 65536.        *)
(***************************************************************************)
C33_OperandBytes ==
    [][called'.op = "step" /\ ByteAt(machine, cpu.program_counter) \notin EmptySlots
       => /\ \A mode \in AddressingModes :
                resolve_operand(Cur, mode).cpu.program_counter
                   = (cpu.program_counter + num_operand_bytes(mode)) % 65536
          /\ operation_at(ByteAt(machine, cpu.program_counter)).exec \notin AssignsPC
             => cpu'.program_counter
                   = (cpu.program_counter + 1
                      + num_operand_bytes(
                           operation_at(ByteAt(machine, cpu.program_counter)).addressing_mode))
                     % 65536]_vars

\* CPY #imm at 0xFFFF: the program counter wrapped to 0x0001
C33_Witness ==
    /\ called.op = "step"
    /\ result = [kind |-> "Ok", what |-> "CPY", code |-> 0]
    /\ before.program_counter = 65535
    /\ cpu.program_counter = 1

(***************************************************************************)
(* C34.  For every valid opcode the addressing mode of its table entry     *)
(* yields an operand kind its handler accepts: step never returns          *)
(* InvalidOperand and never reaches an unreachable!() arm of a branch,     *)
(* BBR/BBS, JMP or JSR handler.                                            *)
(***************************************************************************)
C34_OperandAccepted ==
    [][called'.op = "step" => result'.what \notin {"InvalidOperand", "Unreachable"}]_vars

\* JMP $FF80 at 0x8000 took its Address operand
C34_Witness ==
    /\ called.op = "step"
    /\ result = [kind |-> "Ok", what |-> "JMP", code |-> 0]
    /\ before.program_counter = 32768
    /\ ByteAt(machine, 32768) = 76
    /\ cpu.program_counter = 65408

(***************************************************************************)
(* C35.  When step returns InvalidOpcode(b), A, X, Y, SP, P and memory are *)
(* unchanged, but PC has advanced by exactly 1: the opcode fetch is not    *)
(* undone.                                                                 *)
(***************************************************************************)
C35_InvalidOpcodeAdvances ==
    [][called'.op = "step" /\ result'.kind = "Err" /\ result'.what = "InvalidOpcode"
       => /\ result'.code = ByteAt(machine, cpu.program_counter)
          /\ cpu' = [cpu EXCEPT !.program_counter = (cpu.program_counter + 1) % 65536]
          /\ machine' = machine]_vars

\* 0x03 at 0x8000 was refused and the program counter is 0x8001
C35_Witness ==
    /\ called.op = "step"
    /\ result = Err("InvalidOpcode", 3)
    /\ before.program_counter = 32768
    /\ cpu.program_counter = 32769
    /\ cpu.stack_pointer = before.stack_pointer

(***************************************************************************)
(* C36.  Once reset has been called, bit 5 of P is 1 in every state        *)
(* reachable by any sequence of steps.                                     *)
(***************************************************************************)
C36_Bit5Set ==
    resets > 0 => Flag(cpu.processor_status_register, 5)

\* after reset, PLP pulled the byte 0x00 and P is 0x20
C36_Witness ==
    /\ resets = 1
    /\ called.op = "step"
    /\ result = [kind |-> "Ok", what |-> "PLP", code |-> 0]
    /\ ByteAt(machine, 256 + cpu.stack_pointer) = 0
    /\ cpu.processor_status_register = 32

(***************************************************************************)
(* C37.  The B bit (bit 4) of P is never set by any instruction: reset     *)
(* leaves it 1 (P = 0x34), PLP and RTI clear it, and every other step      *)
(* leaves it as it was, so it is 0 from the first PLP or RTI until the     *)
(* next reset.  BRK and PHP set B only in the byte they push.              *)
(***************************************************************************)
C37_BreakBit ==
    [][/\ called'.op = "reset" /\ result'.kind = "Ok"
          => Flag(cpu'.processor_status_register, 4)
       /\ called'.op = "step"
          => IF result'.kind = "Ok" /\ (StepsOn(40) \/ StepsOn(64))
             THEN ~Flag(cpu'.processor_status_register, 4)
             ELSE Flag(cpu'.processor_status_register, 4)
                     = Flag(cpu.processor_status_register, 4)]_vars

\* reset; LDA #$FF; PHA; PLP; PHP: PHP pushed 0xFF and P is still 0xEF
C37_Witness ==
    /\ resets = 1
    /\ called.op = "step"
    /\ result = [kind |-> "Ok", what |-> "PHP", code |-> 0]
    /\ before.processor_status_register = 239
    /\ cpu.processor_status_register = 239
    /\ ByteAt(machine, 256 + ((cpu.stack_pointer + 1) % 256)) = 255

(***************************************************************************)
(* C38.  SP changes only through the stack instructions: by -1 for PHA,    *)
(* PHP, PHX, PHY, +1 for PLA, PLP, PLX, PLY, -2 for JSR, +2 for RTS, -3    *)
(* for BRK, +3 for RTI (all mod 256); TXS makes it X; every other step     *)
(* leaves it alone.  Every byte pushed or pulled is at 0x0100..0x01FF, in  *)
(* RAM, so the pushes change nothing but their stack cells, the pulls      *)
(* change no memory, and neither ever fails.                               *)
(***************************************************************************)
C38_StackPointer ==
    [][called'.op = "step"
       => LET mnemomic == operation_at(ByteAt(machine, cpu.program_counter)).mnemomic
              moved    == CASE mnemomic \in {"PHA", "PHP", "PHX", "PHY"} -> 255
                            [] mnemomic \in {"PLA", "PLP", "PLX", "PLY"} -> 1
                            [] mnemomic = "JSR" -> 254
                            [] mnemomic = "RTS" -> 2
                            [] mnemomic = "BRK" -> 253
                            [] mnemomic = "RTI" -> 3
                            [] OTHER -> 0
              pushed   == IF moved > 128 THEN 256 - moved ELSE 0
              cells    == {<<1, (cpu.stack_pointer + 256 - k) % 256>> : k \in 0..(pushed - 1)}
          IN  /\ cpu'.stack_pointer =
                    IF mnemomic = "TXS" THEN cpu.x_register
                    ELSE (cpu.stack_pointer + moved) % 256
              /\ moved # 0
                 => /\ result' = [kind |-> "Ok", what |-> mnemomic, code |-> 0]
                    /\ machine'.rom = machine.rom
                    /\ machine'.page_map = machine.page_map
                    /\ SameBytes(machine.ram, machine'.ram, cells)
              /\ mnemomic = "PHA"
                 => ByteAt(machine', 256 + cpu.stack_pointer) = cpu.a_register
              /\ mnemomic = "PLA"
                 => cpu'.a_register = ByteAt(machine, 256 + cpu'.stack_pointer)]_vars

\* LDX #$01; TXS; JSR: SP went from 0x01 round to 0xFF, the return address
\* 0x8005 is in 0x0101 and 0x0100
C38_Witness ==
    /\ called.op = "step"
    /\ result = [kind |-> "Ok", what |-> "JSR", code |-> 0]
    /\ before.stack_pointer = 1
    /\ cpu.stack_pointer = 255
    /\ ByteAt(machine, 257) = 128
    /\ ByteAt(machine, 256) = 5

(***************************************************************************)
(* C39.  BRK at address a followed by RTI at the IRQ vector target         *)
(* restores SP, sets PC to (a + 2) mod 65536 and leaves                    *)
(* P = (P before BRK | 0x20) & ~0x10: the I flag BRK set is gone.          *)
(***************************************************************************)
C39_BreakReturn ==
    [][/\ called.op = "step"
       /\ result = [kind |-> "Ok", what |-> "BRK", code |-> 0]
       /\ StepsOn(64)
       => /\ result' = [kind |-> "Ok", what |-> "RTI", code |-> 0]
          /\ cpu'.stack_pointer = before.stack_pointer
          /\ cpu'.program_counter = (before.program_counter + 2) % 65536
          /\ cpu'.processor_status_register
                = BitAnd(BitOr(before.processor_status_register, 32), 239)]_vars

\* LDA #$00; PHA; PLP; BRK at 0x8004 with P = 0x20; RTI at 0x9000 came
\* back to 0x8006 with P = 0x20 again, not the 0x24 BRK left
C39_Witness ==
    /\ called.op = "step"
    /\ result = [kind |-> "Ok", what |-> "RTI", code |-> 0]
    /\ before.program_counter = 36864
    /\ before.processor_status_register = 36
    /\ cpu.program_counter = 32774
    /\ cpu.processor_status_register = 32
    /\ cpu.stack_pointer = 0

(***************************************************************************)
(* C40.  Opcode 0x9C executes STZ with plain absolute addressing: it       *)
(* writes 0 to exactly the address formed by its two operand bytes,        *)
(* whatever X and Y hold; opcode 0x9E executes STZ with absolute,X         *)
(* addressing: operand address + X, independent of Y.                      *)
(***************************************************************************)
C40_StzAbsolute ==
    [][\A t \in {<<156, 0>>, <<158, cpu.x_register>>} :
          StepsOn(t[1])
          => LET address == wrapping_add16(OperandByte(1) + 256 * OperandByte(2), t[2])
             IN  /\ Returns("STZ")
                 /\ ByteAt(machine', address) = 0
                 /\ SameBytes(machine.ram, machine'.ram,
                              {<<address \div 256, address % 256>>})
                 /\ machine'.rom = machine.rom]_vars

====
